---- MODULE Spec2Model ----
(***************************************************************************)
(* A model of the VPAT automation pipeline: the verdict aggregator         *)
(* (src/scanner/resultAggregator.ts), the question scorer and its fuzzy    *)
(* text match (src/mapping/index.ts), the mapping loader and its cache     *)
(* (src/mapping/questionMapping.ts), the template reader                   *)
(* (src/docx/reader.ts), the document writer (src/docx/xmlHelpers.ts), the *)
(* batched scanner (src/scanner/axeRunner.ts) and the run of one product   *)
(* (src/cli.ts).                                                           *)
(*                                                                         *)
(* Text the code inspects character by character (tags, criterion ids,     *)
(* section names, question texts, cell texts) is a sequence of one-char    *)
(* strings.  Text the code only copies or compares as a whole (urls,       *)
(* rule descriptions, the fixed fragments of a generated comment) is one   *)
(* opaque string.  A nullable value is the empty sequence (null) or a      *)
(* one-element sequence.                                                   *)
(***************************************************************************)
EXTENDS Integers, Sequences, FiniteSets, TLC

VARIABLES
    pc,             \* the step the modelled call sequence is at
    tag,            \* parseWcagTag: the tag handed in
    parsedTag,      \* parseWcagTag: the value returned
    scanResults,    \* ScanResult[]: one record per scanned url, in scan order
    wcagResults,    \* Map<string, WcagScResult> in insertion order
    product,        \* scoreQuestions: the ParsedProduct handed in
    carryForwardScores, \* scoreQuestions: the optional map, None when not passed
    scores,         \* scoreQuestions: the QuestionScore[] returned
    matchTemplate,  \* textsMatch: the template's question text
    matchMapping,   \* textsMatch: the mapping's question text
    matched,        \* textsMatch: the value returned, None before the call
    rowCells,       \* classifyRow: the texts of the cells of a row
    rowType,        \* classifyRow: the kind returned, None before the call
    cellOriginal,   \* setCellText: the cell before the call
    cellNode,       \* setCellText: the cell, changed in place by the call
    cellText,       \* setCellText: the text handed in
    template,       \* parseTemplate: the document read
    parsedDoc,      \* the body of the parsed tree, which the writer changes
    products,       \* parseTemplate: the products returned
    parseError,     \* parseTemplate: the error thrown, None when it returned
    runConfig,      \* runProduct: the configuration and the options of the run
    files,          \* the files the run has written
    runResult,      \* how the run ended, None while it runs
    questions,      \* extractQuestions: the TemplateQuestion[] returned
    summary,        \* scoringSummary: the counts returned, None before the call
    mappingFile,    \* the mapping file: None while absent, else Some(the entries it holds)
    cachedMapping,  \* questionMapping.ts: the module's cache, None for null
    loadResult,     \* the outcome of the last call that loads the mapping, None before one
    calls,          \* the number of such calls so far
    failedCalls,    \* how many of them threw
    urls,           \* scanUrls: the URLs to scan
    concurrency,    \* options.concurrency
    browser,        \* none before launch, then open, then closed
    batchStart,     \* the loop variable i of scanUrls
    stage,          \* per URL, how far its callback of batch.map has come
    contexts,       \* per URL, its browser context: none, open or closed
    taskResult,     \* per URL, what its callback is to return, None before its scan ended
    finished,       \* the URLs (as positions) whose callbacks have fulfilled, in that order
    resultList      \* results of scanUrls

tagVars == <<tag, parsedTag>>
aggVars == <<scanResults, wcagResults>>
scoreVars == <<product, carryForwardScores, scores>>
matchVars == <<matchTemplate, matchMapping, matched>>
classifyVars == <<rowCells, rowType>>
cellVars == <<cellOriginal, cellNode, cellText>>
docVars == <<template, parsedDoc, products, parseError>>
runVars == <<runConfig, files, runResult>>
extractVars == <<questions>>
summaryVars == <<summary>>
mappingVars == <<mappingFile, cachedMapping, loadResult, calls, failedCalls>>
scanVars == <<urls, concurrency, browser, batchStart, stage, contexts, taskResult,
             finished, resultList>>
vars == <<pc, tagVars, aggVars, scoreVars, matchVars, classifyVars, cellVars,
          docVars, runVars, extractVars, summaryVars, mappingVars, scanVars>>

\* what the steps of one part of the model leave alone
outsideTag == <<aggVars, scoreVars, matchVars, classifyVars, cellVars,
                docVars, runVars, extractVars, summaryVars, mappingVars,
                scanVars>>
outsideAgg == <<tagVars, scoreVars, matchVars, classifyVars, cellVars,
                docVars, runVars, extractVars, summaryVars, mappingVars,
                scanVars>>
outsideScore == <<tagVars, matchVars, classifyVars, cellVars, docVars,
                  runVars, extractVars, summaryVars, mappingVars, scanVars>>
outsideMatch == <<tagVars, aggVars, scoreVars, classifyVars, cellVars,
                  docVars, runVars, extractVars, summaryVars, mappingVars,
                  scanVars>>
outsideClassify == <<tagVars, aggVars, scoreVars, matchVars, cellVars,
                     docVars, runVars, extractVars, summaryVars, mappingVars,
                     scanVars>>
outsideCell == <<tagVars, aggVars, scoreVars, matchVars, classifyVars,
                 docVars, runVars, extractVars, summaryVars, mappingVars,
                 scanVars>>
outsideDoc == <<tagVars, aggVars, scoreVars, matchVars, classifyVars,
                cellVars, runVars, extractVars, summaryVars, mappingVars,
                scanVars>>
outsideRun == <<tagVars, aggVars, scoreVars, matchVars, classifyVars,
                cellVars, docVars, extractVars, summaryVars, mappingVars,
                scanVars>>
outsideExtract == <<tagVars, aggVars, scoreVars, matchVars, classifyVars,
                    cellVars, docVars, runVars, summaryVars, mappingVars,
                    scanVars>>
outsideSummary == <<tagVars, aggVars, scoreVars, matchVars, classifyVars,
                    cellVars, docVars, runVars, extractVars, mappingVars,
                    scanVars>>
outsideMapping == <<tagVars, aggVars, scoreVars, matchVars, classifyVars,
                    cellVars, docVars, runVars, extractVars, summaryVars,
                    scanVars>>
outsideScan == <<tagVars, aggVars, scoreVars, matchVars, classifyVars,
                 cellVars, docVars, runVars, extractVars, summaryVars,
                 mappingVars>>

(***************************************************************************)
(* Values and general helpers                                              *)
(***************************************************************************)
None == <<>>
Some(x) == <<x>>

Digits == {"0", "1", "2", "3", "4", "5", "6", "7", "8", "9"}
IsDigit(c) == c \in Digits

StartsWith(s, p) == Len(s) >= Len(p) /\ SubSeq(s, 1, Len(p)) = p

AllDigits(s) == \A i \in 1..Len(s) : IsDigit(s[i])

(***************************************************************************)
(* Strings: whitespace (\s, trim), word characters (\w), case, parseInt    *)
(* and String(number).                                                     *)
(***************************************************************************)
WhiteSpace == {" ", "\t", "\n"}
IsSpace(c) == c \in WhiteSpace

LowerLetters == <<"a", "b", "c", "d", "e", "f", "g", "h", "i", "j", "k", "l", "m",
                  "n", "o", "p", "q", "r", "s", "t", "u", "v", "w", "x", "y", "z">>
UpperLetters == <<"A", "B", "C", "D", "E", "F", "G", "H", "I", "J", "K", "L", "M",
                  "N", "O", "P", "Q", "R", "S", "T", "U", "V", "W", "X", "Y", "Z">>
DigitChars == <<"0", "1", "2", "3", "4", "5", "6", "7", "8", "9">>

\* \w is [A-Za-z0-9_]
IsWordChar(c) ==
    \/ \E i \in DOMAIN LowerLetters : LowerLetters[i] = c \/ UpperLetters[i] = c
    \/ IsDigit(c)
    \/ c = "_"

ToLowerChar(c) ==
    IF \E i \in DOMAIN UpperLetters : UpperLetters[i] = c
    THEN LowerLetters[CHOOSE i \in DOMAIN UpperLetters : UpperLetters[i] = c]
    ELSE c

\* String.prototype.toLowerCase
ToLower(s) == [i \in DOMAIN s |-> ToLowerChar(s[i])]

RECURSIVE TrimStart(_)
TrimStart(s) ==
    IF s # <<>> /\ IsSpace(Head(s)) THEN TrimStart(Tail(s)) ELSE s

RECURSIVE TrimEnd(_)
TrimEnd(s) ==
    IF s # <<>> /\ IsSpace(s[Len(s)]) THEN TrimEnd(SubSeq(s, 1, Len(s) - 1)) ELSE s

\* String.prototype.trim
Trim(s) == TrimEnd(TrimStart(s))

\* String.prototype.includes
Includes(s, part) ==
    \E i \in 0..(Len(s) - Len(part)) : SubSeq(s, i + 1, i + Len(part)) = part

DigitValue(c) == (CHOOSE i \in DOMAIN DigitChars : DigitChars[i] = c) - 1

\* the length of the run of digits s starts with
RECURSIVE DigitRun(_)
DigitRun(s) ==
    IF s # <<>> /\ IsDigit(Head(s)) THEN 1 + DigitRun(Tail(s)) ELSE 0

RECURSIVE DigitsValue(_)
DigitsValue(ds) ==
    IF ds = <<>> THEN 0
    ELSE 10 * DigitsValue(SubSeq(ds, 1, Len(ds) - 1)) + DigitValue(ds[Len(ds)])

\* parseInt(s, 10): leading whitespace, an optional sign, the leading digits;
\* None is NaN
ParseInt(s) ==
    LET t    == TrimStart(s)
        neg  == t # <<>> /\ Head(t) = "-"
        body == IF t # <<>> /\ Head(t) \in {"-", "+"} THEN Tail(t) ELSE t
        n    == DigitRun(body)
    IN  IF n = 0 THEN None
        ELSE Some((IF neg THEN -1 ELSE 1) * DigitsValue(SubSeq(body, 1, n)))

\* String(n) for an integer n
RECURSIVE NatStr(_)
NatStr(n) ==
    IF n < 10 THEN <<DigitChars[n + 1]>>
    ELSE Append(NatStr(n \div 10), DigitChars[(n % 10) + 1])

NumStr(n) == IF n < 0 THEN <<"-">> \o NatStr(-n) ELSE NatStr(n)

(***************************************************************************)
(* normalizeText and textsMatch                                            *)
(***************************************************************************)
\* replace(/\s+/g, ' ')
RECURSIVE CollapseSpaces(_)
CollapseSpaces(s) ==
    IF s = <<>> THEN <<>>
    ELSE IF IsSpace(Head(s)) THEN <<" ">> \o CollapseSpaces(TrimStart(s))
    ELSE <<Head(s)>> \o CollapseSpaces(Tail(s))

KeepWordOrSpace(c) == IsWordChar(c) \/ IsSpace(c)

\* replace(/[^\w\s]/g, '')
StripPunctuation(s) == SelectSeq(s, KeepWordOrSpace)

NormalizeText(text) == ToLower(Trim(StripPunctuation(CollapseSpaces(text))))

\* the length of the run of non-whitespace s starts with
RECURSIVE WordRun(_)
WordRun(s) ==
    IF s # <<>> /\ ~IsSpace(Head(s)) THEN 1 + WordRun(Tail(s)) ELSE 0

\* s.split(/\s+/).filter(w => w.length > 2); the empty strings split yields
\* at the ends of s are shorter than the filter keeps
SignificantLength == 2

RECURSIVE SignificantWords(_)
SignificantWords(s) ==
    LET t == TrimStart(s)
        n == WordRun(t)
    IN  IF t = <<>> THEN <<>>
        ELSE (IF n > SignificantLength THEN <<SubSeq(t, 1, n)>> ELSE <<>>)
             \o SignificantWords(SubSeq(t, n + 1, Len(t)))

WordMatches(w, bWords) ==
    \E k \in DOMAIN bWords : Includes(bWords[k], w) \/ Includes(w, bWords[k])

MatchCount_All(aWords, bWords) ==
    \* the filter keeps every word
    Len(aWords)

\* aWords.filter(w => bWords.some(...)).length
MatchCount(aWords, bWords) ==
    Cardinality({ i \in DOMAIN aWords : WordMatches(aWords[i], bWords) })

MaxOf(x, y) == IF x > y THEN x ELSE y

\* matchCount / Math.max(aWords.length, bWords.length) > 0.7, in tenths
RatioNum == 7
RatioDen == 10

RatioExceeds_OrEqual(count, size) == RatioDen * count >= RatioNum * size

RatioExceeds(count, size) == RatioDen * count > RatioNum * size

TextsMatch_OverFirst(templateText, mappingText) ==
    \* the count is divided by the number of words of the first text
    LET a      == NormalizeText(templateText)
        b      == NormalizeText(mappingText)
        aWords == SignificantWords(a)
        bWords == SignificantWords(b)
    IN  IF a = b THEN TRUE
        ELSE IF Len(aWords) = 0 \/ Len(bWords) = 0 THEN FALSE
        ELSE RatioExceeds(MatchCount(aWords, bWords), Len(aWords))

TextsMatch(templateText, mappingText) ==
    LET a      == NormalizeText(templateText)
        b      == NormalizeText(mappingText)
        aWords == SignificantWords(a)
        bWords == SignificantWords(b)
    IN  IF a = b THEN TRUE
        ELSE IF Len(aWords) = 0 \/ Len(bWords) = 0 THEN FALSE
        ELSE RatioExceeds(MatchCount(aWords, bWords),
                          MaxOf(Len(aWords), Len(bWords)))

(***************************************************************************)
(* parseWcagTag: /^wcag(\d)(\d)(\d+)$/ and `${1}.${2}.${3}`                *)
(***************************************************************************)
WcagLiteral == <<"w", "c", "a", "g">>

ParseWcagTag_NoItem(t) ==
    \* the item group written \d* instead of \d+
    IF /\ Len(t) >= 6
       /\ StartsWith(t, WcagLiteral)
       /\ AllDigits(SubSeq(t, 5, Len(t)))
    THEN Some(<<t[5], ".", t[6], ".">> \o SubSeq(t, 7, Len(t)))
    ELSE None

ParseWcagTag(t) ==
    IF /\ Len(t) >= 7
       /\ StartsWith(t, WcagLiteral)
       /\ AllDigits(SubSeq(t, 5, Len(t)))
    THEN Some(<<t[5], ".", t[6], ".">> \o SubSeq(t, 7, Len(t)))
    ELSE None

(***************************************************************************)
(* aggregateResults.  scMap and the url -> descriptions map of an entry    *)
(* are JavaScript Maps: sequences in insertion order, one element per key. *)
(* A finding is [description, wcagTags]; ruleId, impact and nodes are      *)
(* never read by the aggregator.                                           *)
(***************************************************************************)
TopIssueCount == 3

EmptyEntry(sc) ==
    [sc |-> sc, violations |-> <<>>, passes |-> {}, incomplete |-> {},
     allIssues |-> <<>>]

\* position of key sc in scMap, 0 when scMap.has(sc) is false
ScIndex(scMap, sc) ==
    IF \E i \in DOMAIN scMap : scMap[i].sc = sc
    THEN CHOOSE i \in DOMAIN scMap : scMap[i].sc = sc
    ELSE 0

\* position of key url in entry.violations, 0 when absent
UrlIndex(violations, url) ==
    IF \E j \in DOMAIN violations : violations[j].url = url
    THEN CHOOSE j \in DOMAIN violations : violations[j].url = url
    ELSE 0

\* if (!scMap.has(sc)) scMap.set(sc, {...})
EnsureEntry(scMap, sc) ==
    IF ScIndex(scMap, sc) = 0 THEN Append(scMap, EmptyEntry(sc)) ELSE scMap

RecordViolation(scMap, sc, url, desc) ==
    LET m  == EnsureEntry(scMap, sc)
        i  == ScIndex(m, sc)
        v0 == IF UrlIndex(m[i].violations, url) = 0
              THEN Append(m[i].violations, [url |-> url, descs |-> <<>>])
              ELSE m[i].violations
        j  == UrlIndex(v0, url)
        v1 == [v0 EXCEPT ![j].descs = Append(@, desc)]
    IN  [m EXCEPT ![i].violations = v1, ![i].allIssues = Append(@, desc)]

RecordPass(scMap, sc, url) ==
    LET m == EnsureEntry(scMap, sc)
        i == ScIndex(m, sc)
    IN  [m EXCEPT ![i].passes = @ \cup {url}]

RecordIncomplete_NoEntry(scMap, sc, url) ==
    \* records the url only under a key the map already has
    LET i == ScIndex(scMap, sc)
    IN  IF i = 0 THEN scMap ELSE [scMap EXCEPT ![i].incomplete = @ \cup {url}]

RecordIncomplete(scMap, sc, url) ==
    LET m == EnsureEntry(scMap, sc)
        i == ScIndex(m, sc)
    IN  [m EXCEPT ![i].incomplete = @ \cup {url}]

\* for (const tag of f.wcagTags) { sc = parseWcagTag(tag); if (!sc) continue; ... }
RECURSIVE ProcessTags(_, _, _, _, _)
ProcessTags(scMap, kind, url, desc, tags) ==
    IF tags = <<>> THEN scMap
    ELSE LET sc   == ParseWcagTag(Head(tags))
             next == IF sc = None THEN scMap
                     ELSE IF kind = "violations"
                          THEN RecordViolation(scMap, sc[1], url, desc)
                     ELSE IF kind = "passes"
                          THEN RecordPass(scMap, sc[1], url)
                     ELSE RecordIncomplete(scMap, sc[1], url)
         IN  ProcessTags(next, kind, url, desc, Tail(tags))

\* for (const f of result[kind]) ...
RECURSIVE ProcessFindings(_, _, _, _)
ProcessFindings(scMap, kind, url, findings) ==
    IF findings = <<>> THEN scMap
    ELSE ProcessFindings(
             ProcessTags(scMap, kind, url, Head(findings).description,
                         Head(findings).wcagTags),
             kind, url, Tail(findings))

\* one iteration of for (const result of scanResults)
ProcessResult(scMap, result) ==
    LET a == ProcessFindings(scMap, "violations", result.url, result.violations)
        b == ProcessFindings(a, "passes", result.url, result.passes)
    IN  ProcessFindings(b, "incomplete", result.url, result.incomplete)

RECURSIVE Accumulate(_, _)
Accumulate(scMap, results) ==
    IF results = <<>> THEN scMap
    ELSE Accumulate(ProcessResult(scMap, Head(results)), Tail(results))

\* Array.from(data.violations.values()).reduce((sum, descs) => sum + descs.length, 0)
RECURSIVE SumDescs(_)
SumDescs(violations) ==
    IF violations = <<>> THEN 0
    ELSE Len(Head(violations).descs) + SumDescs(Tail(violations))

TotalViolations_PerUrl(violations) ==
    \* counts the urls instead of the descriptions
    Len(violations)

TotalViolations(violations) == SumDescs(violations)

\* [...new Set(allIssues)]: the distinct elements in first-insertion order
RECURSIVE UniqueIssues(_)
UniqueIssues(issues) ==
    IF issues = <<>> THEN <<>>
    ELSE LET init == UniqueIssues(SubSeq(issues, 1, Len(issues) - 1))
             last == issues[Len(issues)]
         IN  IF \E i \in DOMAIN init : init[i] = last THEN init
             ELSE Append(init, last)

\* arr.slice(0, n)
Slice0(arr, n) == SubSeq(arr, 1, IF Len(arr) < n THEN Len(arr) ELSE n)

TopIssues_NoDedup(allIssues) ==
    \* slices the raw issue list
    Slice0(allIssues, TopIssueCount)

TopIssues(allIssues) == Slice0(UniqueIssues(allIssues), TopIssueCount)

Status_IncompleteFirst(data) ==
    \* tests incomplete before violations
    IF data.incomplete # {} THEN "incomplete"
    ELSE IF Len(data.violations) > 0 THEN "fail"
    ELSE "pass"

Status(data) ==
    IF Len(data.violations) > 0 THEN "fail"
    ELSE IF data.incomplete # {} THEN "incomplete"
    ELSE "pass"

BuildResult(data, totalUrls) ==
    [sc                 |-> data.sc,
     status             |-> Status(data),
     totalViolations    |-> TotalViolations(data.violations),
     urlsWithViolations |-> Len(data.violations),
     totalUrls          |-> totalUrls,
     topIssues          |-> TopIssues(data.allIssues)]

AggregateResults(results) ==
    LET scMap == Accumulate(<<>>, results)
    IN  [i \in DOMAIN scMap |-> BuildResult(scMap[i], Len(results))]

(***************************************************************************)
(* classifyRow and parseWcagTable.  A raw row is the sequence of its cell  *)
(* texts (getCellText of each w:tc); a field the code leaves undefined is  *)
(* None.                                                                   *)
(***************************************************************************)
QuestionsLiteral == <<"q", "u", "e", "s", "t", "i", "o", "n", "s">>
SubtotalLiteral == <<"c", "a", "t", "e", "g", "o", "r", "y", " ", "s", "u", "b", "t", "o", "t", "a", "l">>

\* /^(\d+\.\d+):/ : the captured prefix, None when the text does not match
SectionPrefix(s) ==
    LET n1   == DigitRun(s)
        rest == SubSeq(s, n1 + 2, Len(s))
        n2   == DigitRun(rest)
    IN  IF /\ n1 >= 1
           /\ Len(s) >= n1 + 1 /\ s[n1 + 1] = "."
           /\ n2 >= 1
           /\ Len(rest) >= n2 + 1 /\ rest[n2 + 1] = ":"
        THEN Some(SubSeq(s, 1, n1 + 1 + n2))
        ELSE None

\* cells[i]?.trim() || ''  (i is the 0-based index of the source)
CellTrimmed(cells, i) == IF Len(cells) > i THEN Trim(cells[i + 1]) ELSE <<>>

ClassifyRow(cells) ==
    LET firstCell == CellTrimmed(cells, 0)
    IN  IF ToLower(firstCell) = QuestionsLiteral THEN "header"
        ELSE IF Includes(ToLower(firstCell), SubtotalLiteral) THEN "subtotal"
        ELSE IF SectionPrefix(firstCell) # None THEN "section"
        ELSE IF firstCell = <<>> /\ \A k \in DOMAIN cells : Trim(cells[k]) = <<>>
             THEN "empty"
        ELSE IF Len(firstCell) > 0 THEN "question"
        ELSE "empty"

\* cells.slice(4).join(' ')
RECURSIVE JoinWithSpace(_)
JoinWithSpace(parts) ==
    IF parts = <<>> THEN <<>>
    ELSE IF Len(parts) = 1 THEN parts[1]
    ELSE parts[1] \o <<" ">> \o JoinWithSpace(Tail(parts))

\* parseInt(cells[1] || '0', 10) || 0
ParseWeight(cells) ==
    LET raw == IF Len(cells) > 1 /\ cells[2] # <<>> THEN cells[2] ELSE <<"0">>
        n   == ParseInt(raw)
    IN  IF n = None THEN 0 ELSE n[1]

ParseRow(cells, rowIdx) ==
    LET type == ClassifyRow(cells)
        isQ  == type = "question"
    IN  [rowIndex      |-> rowIdx,
         type          |-> type,
         cells         |-> cells,
         sectionName   |-> IF type = "section" THEN Some(Trim(cells[1])) ELSE None,
         questionText  |-> IF isQ THEN Some(CellTrimmed(cells, 0)) ELSE None,
         weight        |-> IF isQ THEN Some(ParseWeight(cells)) ELSE None,
         score         |-> IF isQ THEN Some(CellTrimmed(cells, 2)) ELSE None,
         weightedScore |-> IF isQ THEN Some(CellTrimmed(cells, 3)) ELSE None,
         comment       |-> IF isQ
                           THEN Some(Trim(JoinWithSpace(SubSeq(cells, 5, Len(cells)))))
                           ELSE None]

CategoryMap == <<"perceivable", "operable", "understandable", "robust">>

\* categoryIndex is 0-based
ParseWcagTable(rawRows, tableIndex, categoryIndex) ==
    [tableIndex |-> tableIndex,
     category   |-> CategoryMap[categoryIndex + 1],
     rows       |-> [i \in DOMAIN rawRows |-> ParseRow(rawRows[i], i - 1)]]

TablesPerProduct == 5
CategoriesPerProduct == 4

BuildProduct_NoSkip(bodyTables, p) ==
    \* the standards table is not skipped
    LET base == p * TablesPerProduct
    IN  [productIndex        |-> p,
         standardsTableIndex |-> base,
         tables |-> [c \in 1..CategoriesPerProduct |->
                        ParseWcagTable(bodyTables[base + c], base + c - 1, c - 1)]]

\* the body of parseTemplate's loop over products, for product p (0-based) of
\* the body's tables in document order; the product name is not modelled
BuildProduct(bodyTables, p) ==
    LET base == p * TablesPerProduct
    IN  [productIndex        |-> p,
         standardsTableIndex |-> base,
         tables |-> [c \in 1..CategoriesPerProduct |->
                        ParseWcagTable(bodyTables[base + 1 + c], base + c, c - 1)]]

(***************************************************************************)
(* The question mapping (mappings/wcag-to-questions.json as loaded by      *)
(* loadQuestionMapping): one entry for section 1.1 with an automatable and *)
(* a manual question.                                                      *)
(***************************************************************************)
Prefix11 == <<"1", ".", "1">>
AutoQuestionText == <<"i", "m", "g", " ", "a", "l", "t">>
ManualQuestionText == <<"v", "i", "d", " ", "c", "a", "p">>

QuestionMapping ==
    << [wcagSc    |-> Prefix11,
        questions |-> << [questionText |-> AutoQuestionText, automatable |-> TRUE],
                         [questionText |-> ManualQuestionText, automatable |-> FALSE] >>] >>

(***************************************************************************)
(* loadQuestionMapping: the cache and the file go in, the cache, the value *)
(* returned and the error thrown come out.  An array, empty or not, is     *)
(* truthy, so the cache counts as filled whenever it is not null.          *)
(***************************************************************************)
MappingPath == "mappings/wcag-to-questions.json"

\* `wcag-to-questions.json not found at ${mappingPath}. Run: npx tsx ...`
MappingNotFoundError(mappingPath) ==
    <<"wcag-to-questions.json not found at ", mappingPath,
      ". Run: npx tsx scripts/dump-template-questions.ts">>

LoadQuestionMapping_Rereads(cache, file) ==
    \* the file is read whenever it exists, the cache only when it does not
    IF file # None THEN [cache |-> file, value |-> file, error |-> None]
    ELSE IF cache # None THEN [cache |-> cache, value |-> cache, error |-> None]
    ELSE [cache |-> None, value |-> None,
          error |-> Some(MappingNotFoundError(MappingPath))]

LoadQuestionMapping(cache, file) ==
    IF cache # None THEN [cache |-> cache, value |-> cache, error |-> None]
    ELSE IF file = None
    THEN [cache |-> None, value |-> None,
          error |-> Some(MappingNotFoundError(MappingPath))]
    ELSE [cache |-> file, value |-> file, error |-> None]

(***************************************************************************)
(* scoreQuestions                                                          *)
(***************************************************************************)
NoCoverageComment == <<"No automated test coverage for this criterion.">>
\* the source writes a dash outside ASCII where this text has "-"
IncompleteComment == <<"Requires manual review - axe-core returned incomplete results.">>
ManualComment == <<"Manual review required.">>

\* arr.join('; ') of opaque descriptions
RECURSIVE JoinIssues(_)
JoinIssues(issues) ==
    IF issues = <<>> THEN <<>>
    ELSE IF Len(issues) = 1 THEN <<issues[1]>>
    ELSE <<issues[1], "; ">> \o JoinIssues(Tail(issues))

\* `Found ${totalViolations} violation(s) across ${urlCount} page(s). Issues: ${...}`
FoundComment(totalViolations, urlCount, topIssues) ==
    <<"Found ">> \o NumStr(totalViolations) \o <<" violation(s) across ">>
        \o NumStr(urlCount) \o <<" page(s). Issues: ">> \o JoinIssues(topIssues)

\* `No issues found across ${totalUrls} page(s).`
CleanComment(totalUrls) ==
    <<"No issues found across ">> \o NumStr(totalUrls) \o <<" page(s).">>

IsRelevant_NoDot(sc, scPrefix) ==
    \* sc.startsWith(scPrefix) without the '.'
    StartsWith(sc, scPrefix)

IsRelevant(sc, scPrefix) ==
    StartsWith(sc, scPrefix \o <<".">>) \/ sc = scPrefix

FindRelevantResults(scPrefix, results) ==
    LET Keep(r) == IsRelevant(r.sc, scPrefix)
    IN  SelectSeq(results, Keep)

RECURSIVE SumTotalViolations(_)
SumTotalViolations(rs) ==
    IF rs = <<>> THEN 0
    ELSE Head(rs).totalViolations + SumTotalViolations(Tail(rs))

\* rs.flatMap(r => r.topIssues)
RECURSIVE FlatTopIssues(_)
FlatTopIssues(rs) ==
    IF rs = <<>> THEN <<>> ELSE Head(rs).topIssues \o FlatTopIssues(Tail(rs))

\* new Set(failResults.map(r => r.urlsWithViolations)).size
UrlCount(failResults) ==
    Cardinality({ failResults[i].urlsWithViolations : i \in DOMAIN failResults })

CommentIssueCount == 3

\* the automatable branch: <<score, comment>>
AutomatedOutcome(scPrefix, results) ==
    LET relevant == FindRelevantResults(scPrefix, results)
        IsFail(r) == r.status = "fail"
        fails    == SelectSeq(relevant, IsFail)
    IN  IF Len(relevant) > 0
        THEN IF \E i \in DOMAIN relevant : relevant[i].status = "fail"
             THEN <<Some(0),
                    FoundComment(SumTotalViolations(fails), UrlCount(fails),
                                 Slice0(FlatTopIssues(fails), CommentIssueCount))>>
             ELSE IF \E i \in DOMAIN relevant : relevant[i].status = "incomplete"
             THEN <<None, IncompleteComment>>
             ELSE <<Some(1), CleanComment(relevant[1].totalUrls)>>
        ELSE <<None, NoCoverageComment>>

\* existingComment || 'Manual review required.'
CommentOrManual(existingComment) ==
    IF existingComment = <<>> THEN ManualComment ELSE existingComment

ManualOutcome_CarryFirst(row, tableIndex, carryForward) ==
    \* consults the carry-forward map before the recorded score
    LET existingScore   == Trim(row.score[1])
        existingComment == Trim(row.comment[1])
        key             == <<tableIndex, row.rowIndex>>
    IN  IF /\ carryForward # None
           /\ key \in DOMAIN carryForward[1]
           /\ carryForward[1][key].score # None
        THEN <<carryForward[1][key].score, carryForward[1][key].comment>>
        ELSE IF existingScore = <<"1">> \/ existingScore = <<"0">>
        THEN <<ParseInt(existingScore), existingComment>>
        ELSE <<None, CommentOrManual(existingComment)>>

\* the branch of a question that is not automatable or has no definition
ManualOutcome(row, tableIndex, carryForward) ==
    LET existingScore   == Trim(row.score[1])
        existingComment == Trim(row.comment[1])
        key             == <<tableIndex, row.rowIndex>>
    IN  IF existingScore = <<"1">> \/ existingScore = <<"0">>
        THEN <<ParseInt(existingScore), existingComment>>
        ELSE IF carryForward # None
        THEN IF key \in DOMAIN carryForward[1] /\ carryForward[1][key].score # None
             THEN <<carryForward[1][key].score, carryForward[1][key].comment>>
             ELSE <<None, CommentOrManual(existingComment)>>
        ELSE <<None, CommentOrManual(existingComment)>>

\* questionMapping.find(e => e.wcagSc === prefix)?.questions.find(q => textsMatch(...))
FindQuestionDef(mapping, scPrefix, questionText) ==
    LET entries == { i \in DOMAIN mapping : mapping[i].wcagSc = scPrefix }
    IN  IF entries = {} THEN None
        ELSE LET e    == mapping[CHOOSE i \in entries : \A j \in entries : i <= j]
                 hits == { k \in DOMAIN e.questions :
                             TextsMatch(questionText, e.questions[k].questionText) }
             IN  IF hits = {} THEN None
                 ELSE Some(e.questions[CHOOSE k \in hits : \A j \in hits : k <= j])

WeightedScore_Unscaled(score, weight) ==
    \* the score itself, not multiplied by the weight
    IF score # None THEN Some(score[1]) ELSE None

\* score !== null ? weight * score : null
WeightedScore(score, weight) ==
    IF score # None THEN Some(weight * score[1]) ELSE None

\* the body of the question branch of the row loop
ScoreQuestion(questionMapping, row, tableIndex, scPrefix, results, carryForward) ==
    LET questionText == row.questionText[1]
        weight       == row.weight[1]
        questionDef  == FindQuestionDef(questionMapping, scPrefix, questionText)
        automatable  == IF questionDef = None THEN FALSE
                        ELSE questionDef[1].automatable
        outcome      == IF automatable /\ questionDef # None
                        THEN AutomatedOutcome(scPrefix, results)
                        ELSE ManualOutcome(row, tableIndex, carryForward)
    IN  [rowIndex      |-> row.rowIndex,
         tableIndex    |-> tableIndex,
         questionText  |-> questionText,
         score         |-> outcome[1],
         weight        |-> weight,
         weightedScore |-> WeightedScore(outcome[1], weight),
         comment       |-> outcome[2],
         automatable   |-> automatable]

RECURSIVE ScoreRows_DropsUnmapped(_, _, _, _, _, _)
ScoreRows_DropsUnmapped(questionMapping, table, i, scPrefix, results, carryForward) ==
    \* a question with no definition in the mapping gets no score
    IF i > Len(table.rows) THEN <<>>
    ELSE LET row == table.rows[i]
         IN  IF row.type = "section"
             THEN LET m == SectionPrefix(row.sectionName[1])
                  IN  ScoreRows_DropsUnmapped(questionMapping, table, i + 1,
                                              IF m = None THEN <<>> ELSE m[1],
                                              results, carryForward)
             ELSE IF /\ row.type = "question"
                     /\ FindQuestionDef(questionMapping, scPrefix,
                                        row.questionText[1]) # None
             THEN <<ScoreQuestion(questionMapping, row, table.tableIndex, scPrefix, results,
                                  carryForward)>>
                  \o ScoreRows_DropsUnmapped(questionMapping, table, i + 1, scPrefix, results,
                                             carryForward)
             ELSE ScoreRows_DropsUnmapped(questionMapping, table, i + 1, scPrefix, results,
                                          carryForward)

\* for (const row of table.rows), from row i (1-based) with the prefix so far
RECURSIVE ScoreRows(_, _, _, _, _, _)
ScoreRows(questionMapping, table, i, scPrefix, results, carryForward) ==
    IF i > Len(table.rows) THEN <<>>
    ELSE LET row == table.rows[i]
         IN  IF row.type = "section"
             THEN LET m == SectionPrefix(row.sectionName[1])
                  IN  ScoreRows(questionMapping, table, i + 1, IF m = None THEN <<>> ELSE m[1],
                                results, carryForward)
             ELSE IF row.type = "question" /\ row.questionText # None
                                           /\ row.questionText[1] # <<>>
             THEN <<ScoreQuestion(questionMapping, row, table.tableIndex, scPrefix, results,
                                  carryForward)>>
                  \o ScoreRows(questionMapping, table, i + 1, scPrefix, results, carryForward)
             ELSE ScoreRows(questionMapping, table, i + 1, scPrefix, results, carryForward)

\* for (const table of product.tables): the prefix starts empty in each table
RECURSIVE ScoreTables(_, _, _, _)
ScoreTables(questionMapping, tables, results, carryForward) ==
    IF tables = <<>> THEN <<>>
    ELSE ScoreRows(questionMapping, Head(tables), 1, <<>>, results, carryForward)
         \o ScoreTables(questionMapping, Tail(tables), results, carryForward)

\* const questionMapping = loadQuestionMapping(), then the loop over the tables
ScoreQuestions(parsedProduct, results, carryForward) ==
    LET questionMapping == LoadQuestionMapping(cachedMapping, mappingFile).value[1]
    IN  ScoreTables(questionMapping, parsedProduct.tables, results, carryForward)

(***************************************************************************)
(* scoringSummary                                                          *)
(***************************************************************************)
\* scores.filter(keep).length
CountWhere(scoreList, Keep(_)) == Len(SelectSeq(scoreList, Keep))

ScoringSummary_NaFalsy(scoreList) ==
    \* na counts every score that is not truthy, 0 as well as null
    LET IsAuto(s) == s.automatable
        IsManual(s) == ~s.automatable
        IsPass(s) == s.score = Some(1)
        IsFail(s) == s.score = Some(0)
        IsNa(s) == s.score = None \/ s.score = Some(0)
    IN  [total     |-> Len(scoreList),
         automated |-> CountWhere(scoreList, IsAuto),
         manual    |-> CountWhere(scoreList, IsManual),
         passing   |-> CountWhere(scoreList, IsPass),
         failing   |-> CountWhere(scoreList, IsFail),
         na        |-> CountWhere(scoreList, IsNa)]

ScoringSummary(scoreList) ==
    LET IsAuto(s) == s.automatable
        IsManual(s) == ~s.automatable
        IsPass(s) == s.score = Some(1)
        IsFail(s) == s.score = Some(0)
        IsNa(s) == s.score = None
    IN  [total     |-> Len(scoreList),
         automated |-> CountWhere(scoreList, IsAuto),
         manual    |-> CountWhere(scoreList, IsManual),
         passing   |-> CountWhere(scoreList, IsPass),
         failing   |-> CountWhere(scoreList, IsFail),
         na        |-> CountWhere(scoreList, IsNa)]

(***************************************************************************)
(* extractQuestions, and the prefix scoreQuestions holds at a row          *)
(***************************************************************************)
\* currentSection.match(/^(\d+\.\d+):/) ? scMatch[1] : ''
PrefixOfSection(currentSection) ==
    LET m == SectionPrefix(currentSection) IN IF m = None THEN <<>> ELSE m[1]

\* scoreQuestions: currentScPrefix when the loop reaches row i (1-based) of a
\* table; it starts empty in every table
CurrentScPrefix(table, i) ==
    LET secs == { j \in 1..(i - 1) : table.rows[j].type = "section" }
    IN  IF secs = {} THEN <<>>
        ELSE PrefixOfSection(table.rows[CHOOSE j \in secs : \A k \in secs : k <= j]
                                 .sectionName[1])

\* the row loop of extractQuestions from row i (1-based) of one table, entered
\* with the section the loops before left: the questions and the section after
RECURSIVE ExtractRows(_, _, _)
ExtractRows(table, i, currentSection) ==
    IF i > Len(table.rows) THEN [questions |-> <<>>, section |-> currentSection]
    ELSE LET row == table.rows[i]
         IN  IF row.type = "section"
             THEN ExtractRows(table, i + 1, row.sectionName[1])
             ELSE IF row.type = "question"
             THEN LET rest == ExtractRows(table, i + 1, currentSection)
                  IN  [questions |->
                           <<[tableIndex   |-> table.tableIndex,
                              rowIndex     |-> row.rowIndex,
                              questionText |-> row.questionText[1],
                              weight       |-> row.weight[1],
                              wcagSc       |-> PrefixOfSection(currentSection),
                              category     |-> table.category,
                              section      |-> currentSection]>> \o rest.questions,
                       section |-> rest.section]
             ELSE ExtractRows(table, i + 1, currentSection)

\* the table loop: currentSection is declared outside it
RECURSIVE ExtractTables(_, _)
ExtractTables(tables, currentSection) ==
    IF tables = <<>> THEN <<>>
    ELSE LET r == ExtractRows(Head(tables), 1, currentSection)
         IN  r.questions \o ExtractTables(Tail(tables), r.section)

ExtractQuestions(parsedProduct) == ExtractTables(parsedProduct.tables, <<>>)

(***************************************************************************)
(* xmlHelpers: the order-preserving tree.  An element is a record of its   *)
(* tag, its attributes (':@', a set of name=value atoms), its children in  *)
(* document order and, for w:t, its '#text'.                               *)
(***************************************************************************)
Element(tagName, attrs, kids) == [tag |-> tagName, attrs |-> attrs, kids |-> kids, text |-> <<>>]

TextElement(attrs, text) == [tag |-> "w:t", attrs |-> attrs, kids |-> <<>>, text |-> text]

PreserveSpace == "xml:space=preserve"

\* children.filter(c => tagName in c), as positions
ChildrenTagged(node, tagName) == { k \in DOMAIN node.kids : node.kids[k].tag = tagName }

FirstOf(S) == CHOOSE k \in S : \A j \in S : k <= j

\* getCellText: the text of every w:t below the node, in document order
RECURSIVE GetText(_)
RECURSIVE GetTextOfAll(_)
GetText(node) ==
    IF node.tag = "w:t" THEN node.text ELSE GetTextOfAll(node.kids)

GetTextOfAll(nodes) ==
    IF nodes = <<>> THEN <<>> ELSE GetText(Head(nodes)) \o GetTextOfAll(Tail(nodes))

GetCellText(tcNode) == GetTextOfAll(tcNode.kids)

KidsTagged(node, tagName) ==
    LET Keep(c) == c.tag = tagName IN SelectSeq(node.kids, Keep)

KidsNotTagged(node, tagName) ==
    LET Keep(c) == c.tag # tagName IN SelectSeq(node.kids, Keep)

\* { 'w:t': [{ '#text': text }], ':@': { '@_xml:space': 'preserve' } }
NewTextElement(text) == TextElement({PreserveSpace}, text)

\* the first run with its text replaced: the first w:t is kept, rewritten and
\* moved behind the run's other children; further w:t are dropped
RunWithText(firstRun, text) ==
    LET textEls == ChildrenTagged(firstRun, "w:t")
    IN  IF textEls # {}
        THEN LET t0 == firstRun.kids[FirstOf(textEls)]
                 t1 == [t0 EXCEPT !.text = text, !.attrs = @ \cup {PreserveSpace}]
             IN  [firstRun EXCEPT !.kids = KidsNotTagged(firstRun, "w:t") \o <<t1>>]
        ELSE [firstRun EXCEPT !.kids = Append(@, NewTextElement(text))]

\* the first paragraph after setCellText
ParagraphWithText(para, text) ==
    LET runs == ChildrenTagged(para, "w:r")
    IN  IF runs = {}
        THEN [para EXCEPT !.kids = Append(@, Element("w:r", {}, <<NewTextElement(text)>>))]
        ELSE [para EXCEPT !.kids = KidsNotTagged(para, "w:r")
                                     \o <<RunWithText(para.kids[FirstOf(runs)], text)>>]

SetCellText(tcNode, text) ==
    LET paragraphs == ChildrenTagged(tcNode, "w:p")
    IN  IF paragraphs = {} THEN tcNode
        ELSE [tcNode EXCEPT !.kids[FirstOf(paragraphs)] = ParagraphWithText(@, text)]

(***************************************************************************)
(* reader.parseTemplate on the tree: the tables of the body in document    *)
(* order, whatever stands between them, each read as rows of cell texts.   *)
(***************************************************************************)
\* bodyChildren filtered by 'w:tbl' in child; tables[i].index is i (0-based)
TableNodes(body) ==
    LET IsTable(c) == c.tag = "w:tbl" IN SelectSeq(body, IsTable)

\* trNodes and, per row, tcNodes.map(tc => getCellText(tc))
RowTexts(trNode) ==
    LET tcNodes == KidsTagged(trNode, "w:tc")
    IN  [c \in DOMAIN tcNodes |-> GetCellText(tcNodes[c])]

TableTexts(tableNode) ==
    LET trNodes == KidsTagged(tableNode, "w:tr")
    IN  [r \in DOMAIN trNodes |-> RowTexts(trNodes[r])]

NoBodyError == "No document body found"
TooFewTablesError == "Expected at least 5 tables in template"

ParseTemplate(doc) ==
    LET tables       == TableNodes(doc.body)
        texts        == [i \in DOMAIN tables |-> TableTexts(tables[i])]
        productCount == Len(tables) \div TablesPerProduct
    IN  IF ~doc.hasBody THEN [error |-> Some(NoBodyError), products |-> <<>>]
        ELSE IF productCount = 0
        THEN [error |-> Some(TooFewTablesError), products |-> <<>>]
        ELSE [error    |-> None,
              products |-> [p \in 1..productCount |-> BuildProduct(texts, p - 1)]]

(***************************************************************************)
(* writer: updateTable, updateReportDate and generateDocx on the tree.     *)
(* A score's text fields are written into cells as they are.               *)
(***************************************************************************)
\* the 0-based index of the child at position k among the children tagged tagName
RankAmong(node, tagName, k) ==
    Cardinality({ j \in ChildrenTagged(node, tagName) : j < k })

\* scoreMap.get(rowIdx) where the map was filled in the order of scores: the
\* last score of this table and row, None when there is none
ScoreFor(scoreList, tableIndex, rowIdx) ==
    LET hits == { i \in DOMAIN scoreList : /\ scoreList[i].tableIndex = tableIndex
                                           /\ scoreList[i].rowIndex = rowIdx }
    IN  IF hits = {} THEN None
        ELSE Some(scoreList[CHOOSE i \in hits : \A j \in hits : j <= i])

\* score.score === null ? '*' : String(score.score)
ScoreText(score) == IF score.score = None THEN <<"*">> ELSE NumStr(score.score[1])

\* score.weightedScore === null ? '' : String(score.weightedScore)
WeightedScoreText(score) ==
    IF score.weightedScore = None THEN <<>> ELSE NumStr(score.weightedScore[1])

MinScoredCells == 4
CommentCellIndex == 4

UpdateRow_ClearsAll(trNode, score) ==
    \* the loop that clears cells starts at cell 0
    LET cellCount == Cardinality(ChildrenTagged(trNode, "w:tc"))
        NewKid(k) ==
            LET c == trNode.kids[k]
                i == RankAmong(trNode, "w:tc", k)
            IN  IF c.tag # "w:tc" \/ cellCount < MinScoredCells THEN c
                ELSE IF i = 2 THEN SetCellText(c, ScoreText(score))
                ELSE IF i = 3 THEN SetCellText(c, WeightedScoreText(score))
                ELSE IF cellCount >= CommentCellIndex + 1 /\ score.comment # <<>>
                THEN SetCellText(c, IF i = CommentCellIndex THEN score.comment ELSE <<>>)
                ELSE c
    IN  [trNode EXCEPT !.kids = [k \in DOMAIN trNode.kids |-> NewKid(k)]]

\* the body of updateTable's row loop for a row that has a score
UpdateRow(trNode, score) ==
    LET cellCount == Cardinality(ChildrenTagged(trNode, "w:tc"))
        NewKid(k) ==
            LET c == trNode.kids[k]
                i == RankAmong(trNode, "w:tc", k)
            IN  IF c.tag # "w:tc" \/ cellCount < MinScoredCells THEN c
                ELSE IF i = 2 THEN SetCellText(c, ScoreText(score))
                ELSE IF i = 3 THEN SetCellText(c, WeightedScoreText(score))
                ELSE IF /\ i >= CommentCellIndex
                        /\ cellCount >= CommentCellIndex + 1
                        /\ score.comment # <<>>
                THEN SetCellText(c, IF i = CommentCellIndex THEN score.comment ELSE <<>>)
                ELSE c
    IN  [trNode EXCEPT !.kids = [k \in DOMAIN trNode.kids |-> NewKid(k)]]

\* the scores that updateTable's row loop meets in a table of rowCount rows
RECURSIVE ScoresMet(_, _, _)
ScoresMet(scoreList, tableIndex, rowCount) ==
    IF rowCount = 0 THEN <<>>
    ELSE LET score == ScoreFor(scoreList, tableIndex, rowCount - 1)
         IN  ScoresMet(scoreList, tableIndex, rowCount - 1) \o score

RECURSIVE TotalWeightedScore(_)
TotalWeightedScore(met) ==
    IF met = <<>> THEN 0
    ELSE (IF Head(met).weightedScore # None THEN Head(met).weightedScore[1] ELSE 0)
         + TotalWeightedScore(Tail(met))

RECURSIVE TotalMaxScore(_)
TotalMaxScore(met) ==
    IF met = <<>> THEN 0
    ELSE (IF Head(met).score # None THEN Head(met).weight ELSE 0)
         + TotalMaxScore(Tail(met))

MinSubtotalCells == 7
MaxTotalCellIndex == 5
WeightedTotalCellIndex == 6

\* the last row after the subtotal update
UpdateSubtotal(lastRow, met) ==
    LET lastCells     == KidsTagged(lastRow, "w:tc")
        firstCellText == IF lastCells = <<>> THEN <<>>
                         ELSE ToLower(Trim(GetCellText(lastCells[1])))
        NewKid(k) ==
            LET c == lastRow.kids[k]
                i == RankAmong(lastRow, "w:tc", k)
            IN  IF c.tag # "w:tc" THEN c
                ELSE IF i = WeightedTotalCellIndex
                THEN SetCellText(c, NumStr(TotalWeightedScore(met)))
                ELSE IF i = MaxTotalCellIndex
                THEN SetCellText(c, NumStr(TotalMaxScore(met)))
                ELSE c
    IN  IF Includes(firstCellText, SubtotalLiteral) /\ Len(lastCells) >= MinSubtotalCells
        THEN [lastRow EXCEPT !.kids = [k \in DOMAIN lastRow.kids |-> NewKid(k)]]
        ELSE lastRow

UpdateTable(tableNode, scoreList, tableIndex) ==
    LET trs      == ChildrenTagged(tableNode, "w:tr")
        rowCount == Cardinality(trs)
        met      == ScoresMet(scoreList, tableIndex, rowCount)
        NewKid(k) ==
            LET c     == tableNode.kids[k]
                score == ScoreFor(scoreList, tableIndex, RankAmong(tableNode, "w:tr", k))
                c1    == IF c.tag = "w:tr" /\ score # None
                         THEN UpdateRow(c, score[1]) ELSE c
            IN  IF c.tag = "w:tr" /\ RankAmong(tableNode, "w:tr", k) = rowCount - 1
                THEN UpdateSubtotal(c1, met)
                ELSE c1
    IN  [tableNode EXCEPT !.kids = [k \in DOMAIN tableNode.kids |-> NewKid(k)]]

ReportDateLiteral == <<"R", "e", "p", "o", "r", "t", " ", "D", "a", "t", "e", ":">>

\* /\d{1,2}\/\d{1,2}\/\d{2,4}/ matches somewhere in the text
HasDate(s) ==
    LET D(i) == i \in DOMAIN s /\ IsDigit(s[i])
        S(i) == i \in DOMAIN s /\ s[i] = "/"
    IN  \E i \in DOMAIN s :
           /\ D(i) /\ S(i + 1)
           /\ \/ D(i + 2) /\ S(i + 3) /\ D(i + 4) /\ D(i + 5)
              \/ D(i + 2) /\ D(i + 3) /\ S(i + 4) /\ D(i + 5) /\ D(i + 6)

\* getCellText({ 'w:tc': getChildren(run, 'w:r') })
RunText(run) == GetCellText(Element("w:tc", {}, run.kids))

\* setCellText({ 'w:tc': getChildren(run, 'w:r') }, reportDate): the children
\* of the run stand in for the children of a cell
RunWithDate(run, reportDate) ==
    [run EXCEPT !.kids = SetCellText(Element("w:tc", {}, @), reportDate).kids]

\* the body of updateReportDate's loop for one paragraph
ParagraphWithDate(para, reportDate) ==
    LET runs    == ChildrenTagged(para, "w:r")
        text    == GetTextOfAll(KidsTagged(para, "w:r"))
        dated   == { k \in runs : \/ HasDate(RunText(para.kids[k]))
                                  \/ Includes(RunText(para.kids[k]), <<"Q">>) }
    IN  IF Includes(text, ReportDateLiteral) /\ dated # {}
        THEN [para EXCEPT !.kids[FirstOf(dated)] = RunWithDate(@, reportDate)]
        ELSE para

\* updateReportDate below one node: every w:p at any depth
RECURSIVE DateBelow(_, _)
DateBelow(node, reportDate) ==
    LET n1 == IF node.tag = "w:p" THEN ParagraphWithDate(node, reportDate) ELSE node
    IN  [n1 EXCEPT !.kids = [k \in DOMAIN n1.kids |-> DateBelow(n1.kids[k], reportDate)]]

UpdateReportDate(body, reportDate) ==
    [k \in DOMAIN body |-> DateBelow(body[k], reportDate)]

RECURSIVE UpdateProductTables_ByPosition(_, _, _, _)
UpdateProductTables_ByPosition(body, productTables, c, scoreList) ==
    \* the index counts every child of the body, not the tables only
    IF c > Len(productTables) THEN body
    ELSE LET tableIndex == productTables[c].tableIndex
             at == { k \in DOMAIN body : body[k].tag = "w:tbl" /\ k - 1 = tableIndex }
             b1 == IF at = {} THEN body
                   ELSE [body EXCEPT ![FirstOf(at)] = UpdateTable(@, scoreList, tableIndex)]
         IN  UpdateProductTables_ByPosition(b1, productTables, c + 1, scoreList)

\* the table loop of generateDocx from the c-th table of the product on
RECURSIVE UpdateProductTables(_, _, _, _)
UpdateProductTables(body, productTables, c, scoreList) ==
    IF c > Len(productTables) THEN body
    ELSE LET tableIndex == productTables[c].tableIndex
             at == { k \in DOMAIN body :
                       /\ body[k].tag = "w:tbl"
                       /\ Cardinality({ j \in DOMAIN body :
                              j < k /\ body[j].tag = "w:tbl" }) = tableIndex }
             b1 == IF at = {} THEN body
                   ELSE [body EXCEPT ![FirstOf(at)] = UpdateTable(@, scoreList, tableIndex)]
         IN  UpdateProductTables(b1, productTables, c + 1, scoreList)

\* generateDocx up to the rebuilt tree: the children of the body
GenerateDocx(body, parsedProduct, scoreList, reportDate) ==
    UpdateReportDate(UpdateProductTables(body, parsedProduct.tables, 1, scoreList),
                     reportDate)

(***************************************************************************)
(* Tag decoding on its own: a tag is one of a few openings followed by up  *)
(* to MaxTagTail further characters, and parseWcagTag is applied to it.    *)
(***************************************************************************)
MaxTagTail == 4

TagOpenings ==
    { <<>>,
      <<"w", "c", "a", "g">>,
      <<"w", "c", "a">>,
      <<"W", "c", "a", "g">>,
      <<"x", "w", "c", "a", "g">>,
      <<"w", "c", "a", "g", "-">>,
      <<"c", "a", "t">>,
      <<"b", "e", "s", "t", "-", "p", "r", "a", "c", "t", "i", "c", "e">> }

TagTailChars == {"1", "4", "2", "a"}

NoDocument == [hasBody |-> FALSE, body |-> <<>>]

NoConfig == [productSectionIndex |-> 0, scanOnly |-> FALSE, dryRun |-> FALSE, reportDate |-> <<>>]
NoProduct == [productIndex |-> 0, standardsTableIndex |-> 0, tables |-> <<>>]

TagIdle == tag = <<>> /\ parsedTag = None
AggIdle == scanResults = <<>> /\ wcagResults = <<>>
ScoreIdle == product = NoProduct /\ carryForwardScores = None /\ scores = <<>>
MatchIdle == matchTemplate = <<>> /\ matchMapping = <<>> /\ matched = None
ClassifyIdle == rowCells = <<>> /\ rowType = None
CellIdle == cellOriginal = <<>> /\ cellNode = <<>> /\ cellText = <<>>
DocIdle == template = NoDocument /\ parsedDoc = <<>> /\ products = <<>> /\ parseError = None
RunIdle == runConfig = NoConfig /\ files = {} /\ runResult = None
ExtractIdle == questions = <<>>
SummaryIdle == summary = None
MappingIdle == mappingFile = Some(QuestionMapping) /\ cachedMapping = Some(QuestionMapping)
               /\ loadResult = None /\ calls = 0 /\ failedCalls = 0
ScanIdle == urls = <<>> /\ concurrency = 1 /\ browser = "none" /\ batchStart = 0
            /\ stage = <<>> /\ contexts = <<>> /\ taskResult = <<>>
            /\ finished = <<>> /\ resultList = <<>>

InitTag ==
    /\ pc = "tag"
    /\ tag \in TagOpenings
    /\ parsedTag = None
    /\ AggIdle
    /\ ScoreIdle
    /\ MatchIdle
    /\ ClassifyIdle
    /\ CellIdle
    /\ DocIdle
    /\ RunIdle
    /\ ExtractIdle
    /\ SummaryIdle
    /\ MappingIdle
    /\ ScanIdle

\* one more character of the tag is read
TagAppend ==
    /\ pc = "tag"
    /\ \E o \in TagOpenings :
          StartsWith(tag, o) /\ Len(tag) - Len(o) < MaxTagTail
    /\ \E c \in TagTailChars : tag' = Append(tag, c)
    /\ UNCHANGED <<pc, parsedTag>>
    /\ UNCHANGED outsideTag

\* parseWcagTag(tag)
TagParse ==
    /\ pc = "tag"
    /\ parsedTag' = ParseWcagTag(tag)
    /\ pc' = "tagParsed"
    /\ UNCHANGED tag
    /\ UNCHANGED outsideTag

NextTag == TagAppend \/ TagParse

SpecTag == InitTag /\ [][NextTag]_vars

(***************************************************************************)
(* The aggregator on scan results that arrive finding by finding.          *)
(* A scan of one more url starts a new ScanResult, axe reports one more    *)
(* violation, pass or incomplete finding for the url being scanned, and    *)
(* aggregateResults is then called on what was collected.  The tag list    *)
(* of a finding is the tag list of an axe rule: it repeats no tag.         *)
(***************************************************************************)
MaxResults == 2
MaxFindings == 3

Urls == {"u1", "u2"}

Tag111  == <<"w", "c", "a", "g", "1", "1", "1">>
Tag112  == <<"w", "c", "a", "g", "1", "1", "2">>
Tag121  == <<"w", "c", "a", "g", "1", "2", "1">>
Tag2a   == <<"w", "c", "a", "g", "2", "a">>
TagBest == <<"b", "e", "s", "t", "-", "p", "r", "a", "c", "t", "i", "c", "e">>

Sc111  == <<"1", ".", "1", ".", "1">>
Sc112  == <<"1", ".", "1", ".", "2">>
Sc121  == <<"1", ".", "2", ".", "1">>
Sc1101 == <<"1", ".", "1", "0", ".", "1">>

ViolationFindings ==
    { [description |-> "d1", wcagTags |-> tl] :
        tl \in { <<Tag111>>, <<Tag2a, Tag112>>, <<Tag111, Tag112>> } }

PassFindings == { [description |-> "p", wcagTags |-> <<Tag111>>] }

IncompleteFindings ==
    { [description |-> "i", wcagTags |-> tl] : tl \in { <<Tag111>>, <<Tag112>> } }

EmptyScan(url) ==
    [url |-> url, violations |-> <<>>, passes |-> <<>>, incomplete |-> <<>>]

FindingCount(results) ==
    LET n(r) == Len(r.violations) + Len(r.passes) + Len(r.incomplete)
        RECURSIVE Sum(_)
        Sum(rs) == IF rs = <<>> THEN 0 ELSE n(Head(rs)) + Sum(Tail(rs))
    IN  Sum(results)

InitAgg ==
    /\ pc = "scan"
    /\ scanResults = <<>>
    /\ wcagResults = <<>>
    /\ TagIdle
    /\ ScoreIdle
    /\ MatchIdle
    /\ ClassifyIdle
    /\ CellIdle
    /\ DocIdle
    /\ RunIdle
    /\ ExtractIdle
    /\ SummaryIdle
    /\ MappingIdle
    /\ ScanIdle

\* the scan of one more url begins
StartResult ==
    /\ pc = "scan"
    /\ Len(scanResults) < MaxResults
    /\ \E u \in Urls : scanResults' = Append(scanResults, EmptyScan(u))
    /\ UNCHANGED <<pc, wcagResults>>
    /\ UNCHANGED outsideAgg

AddFinding(kind, f) ==
    /\ pc = "scan"
    /\ scanResults # <<>>
    /\ scanResults' =
          [scanResults EXCEPT ![Len(scanResults)][kind] = Append(@, f)]
    /\ UNCHANGED <<pc, wcagResults>>
    /\ UNCHANGED outsideAgg

AddViolation ==
    /\ FindingCount(scanResults) < MaxFindings
    /\ \E f \in ViolationFindings : AddFinding("violations", f)

AddPass ==
    /\ FindingCount(scanResults) < MaxFindings
    /\ \E f \in PassFindings : AddFinding("passes", f)

AddIncomplete ==
    /\ FindingCount(scanResults) < MaxFindings
    /\ \E f \in IncompleteFindings : AddFinding("incomplete", f)

\* wcagResults = aggregateResults(scanResults)
Aggregate ==
    /\ pc = "scan"
    /\ wcagResults' = AggregateResults(scanResults)
    /\ pc' = "aggregated"
    /\ UNCHANGED scanResults
    /\ UNCHANGED outsideAgg

NextAgg == StartResult \/ AddViolation \/ AddPass \/ AddIncomplete \/ Aggregate

SpecAgg == InitAgg /\ [][NextAgg]_vars

(***************************************************************************)
(* The aggregator on violations with several descriptions: the urls are    *)
(* scanned in a fixed order and only violations are reported.              *)
(***************************************************************************)
MaxIssues == 4

UrlOrder == <<"u1", "u2", "u3", "u4">>

IssueFindings ==
    { [description |-> "d1", wcagTags |-> <<Tag111>>],
      [description |-> "d2", wcagTags |-> <<Tag111>>],
      [description |-> "d3", wcagTags |-> <<Tag111, Tag112>>],
      [description |-> "d4", wcagTags |-> <<Tag111>>] }

StartNextUrl ==
    /\ pc = "scan"
    /\ Len(scanResults) < MaxResults
    /\ scanResults' = Append(scanResults, EmptyScan(UrlOrder[Len(scanResults) + 1]))
    /\ UNCHANGED <<pc, wcagResults>>
    /\ UNCHANGED outsideAgg

AddIssue ==
    /\ FindingCount(scanResults) < MaxIssues
    /\ \E f \in IssueFindings : AddFinding("violations", f)

NextIssues == StartNextUrl \/ AddIssue \/ Aggregate

SpecIssues == InitAgg /\ [][NextIssues]_vars

(***************************************************************************)
(* The scorer on the aggregated verdicts of up to MaxResults scanned       *)
(* pages.  Each page scan ends in one of a few outcomes, the verdicts are  *)
(* aggregated, and scoreQuestions is called on a one-product template      *)
(* whose first category table holds one question row, with or without a    *)
(* carry-forward map.                                                      *)
(***************************************************************************)
Finding(desc, tags) == [description |-> desc, wcagTags |-> tags]

PageOutcomes ==
    { [violations |-> <<>>, passes |-> <<>>, incomplete |-> <<>>],
      [violations |-> <<Finding("d1", <<Tag111>>)>>, passes |-> <<>>,
       incomplete |-> <<>>],
      [violations |-> <<Finding("d2", <<Tag2a, Tag111, Tag112>>)>>, passes |-> <<>>,
       incomplete |-> <<>>],
      [violations |-> <<Finding("d1", <<TagBest, Tag121>>)>>, passes |-> <<>>,
       incomplete |-> <<Finding("i", <<Tag2a>>)>>],
      [violations |-> <<>>, passes |-> <<Finding("p", <<Tag111>>)>>,
       incomplete |-> <<>>],
      [violations |-> <<>>, passes |-> <<>>,
       incomplete |-> <<Finding("i", <<Tag112>>)>>] }

HeaderRow == <<<<"Q", "u", "e", "s", "t", "i", "o", "n", "s">>, <<"W", "e", "i", "g", "h", "t">>, <<"S", "c", "o", "r", "e">>, <<"W", "e", "i", "g", "h", "t", "e", "d", " ", "S", "c", "o", "r", "e">>, <<"C", "o", "m", "m", "e", "n", "t", "s">>>>
SubtotalRow == <<<<"C", "a", "t", "e", "g", "o", "r", "y", " ", "S", "u", "b", "t", "o", "t", "a", "l">>, <<>>, <<>>, <<>>, <<>>>>
Section11Row == <<<<"1", ".", "1", ":", " ", "N", "o", "n", "-", "t", "e", "x", "t">>>>
Section12Row == <<<<"1", ".", "2", ":", " ", "M", "e", "d", "i", "a">>>>

RowAutoText == <<"I", "m", "g", "s", " ", " ", "a", "l", "t", "!">>
RowManualText == <<"V", "i", "d", " ", "c", "a", "p">>
RowUnknownText == <<"z", "z", "z">>

QuestionRows ==
    { <<RowManualText, <<"3">>, sc, <<>>, cm>> :
        sc \in { <<>>, <<"1">>, <<" ", "0">>, <<"*">> },
        cm \in { <<>>, <<"o", "k">> } }
    \cup { <<RowAutoText, <<"3">>, sc, <<>>, <<>>>> : sc \in { <<>>, <<"1">> } }
    \cup { <<RowAutoText, <<>>, <<>>, <<>>, <<"o", "k">>>>,
           <<RowUnknownText, <<"2">>, <<>>, <<>>, <<>>>> }

StandardsTable == << <<<<"S", "t", "a", "n", "d", "a", "r", "d">>>> >>

SectionRows == { <<>>, <<Section11Row>>, <<Section12Row>> }

\* the tables of the document body, in document order
Template(sec, q) ==
    <<StandardsTable, <<HeaderRow>> \o sec \o <<q, SubtotalRow>>,
      <<HeaderRow>>, <<HeaderRow>>, <<HeaderRow>>>>

Templates == { Template(sec, q) : sec \in SectionRows, q \in QuestionRows }

CarriedScores ==
    { [score |-> Some(0), comment |-> <<"c", "f">>],
      [score |-> None, comment |-> <<"c", "f">>] }

CarryForwards ==
    {None} \cup { Some([k \in {key} |-> v]) :
                    key \in { <<1, 1>>, <<1, 2>> }, v \in CarriedScores }

InitScore ==
    /\ pc = "scan"
    /\ scanResults = <<>>
    /\ wcagResults = <<>>
    /\ TagIdle
    /\ ScoreIdle
    /\ MatchIdle
    /\ ClassifyIdle
    /\ CellIdle
    /\ DocIdle
    /\ RunIdle
    /\ ExtractIdle
    /\ SummaryIdle
    /\ MappingIdle
    /\ ScanIdle

\* the scan of the next url ends
ScanPage ==
    /\ pc = "scan"
    /\ Len(scanResults) < MaxResults
    /\ \E o \in PageOutcomes :
          scanResults' = Append(scanResults,
              [url        |-> UrlOrder[Len(scanResults) + 1],
               violations |-> o.violations,
               passes     |-> o.passes,
               incomplete |-> o.incomplete])
    /\ UNCHANGED <<pc, wcagResults>>
    /\ UNCHANGED outsideAgg

\* scores = scoreQuestions(product, wcagResults, carryForwardScores)
ScoreProduct ==
    /\ pc = "aggregated"
    /\ \E body \in Templates, cf \in CarryForwards :
          /\ product' = BuildProduct(body, 0)
          /\ carryForwardScores' = cf
          /\ scores' = ScoreQuestions(product', wcagResults, cf)
    /\ pc' = "scored"
    /\ UNCHANGED aggVars
    /\ UNCHANGED outsideScore

NextScore == ScanPage \/ Aggregate \/ ScoreProduct

SpecScore == InitScore /\ [][NextScore]_vars

(***************************************************************************)
(* scoreQuestions on a verdict map handed to it directly: up to            *)
(* MaxVerdicts verdicts with distinct ids, in any insertion order, among   *)
(* them the id of a section itself and the id of a criterion of section    *)
(* 1.10.                                                                   *)
(***************************************************************************)
MaxVerdicts == 2

VerdictIds == { Prefix11, Sc111, Sc112, Sc121, Sc1101 }

Verdict(sc, status) ==
    [sc                 |-> sc,
     status             |-> status,
     totalViolations    |-> IF status = "fail" THEN 1 ELSE 0,
     urlsWithViolations |-> IF status = "fail" THEN 1 ELSE 0,
     totalUrls          |-> 1,
     topIssues          |-> IF status = "fail" THEN <<"d1">> ELSE <<>>]

AutoTemplates ==
    { Template(sec, q) :
        sec \in SectionRows, q \in { r \in QuestionRows : r[1] = RowAutoText } }

InitVerdicts ==
    /\ pc = "verdicts"
    /\ scanResults = <<>>
    /\ wcagResults = <<>>
    /\ TagIdle
    /\ ScoreIdle
    /\ MatchIdle
    /\ ClassifyIdle
    /\ CellIdle
    /\ DocIdle
    /\ RunIdle
    /\ ExtractIdle
    /\ SummaryIdle
    /\ MappingIdle
    /\ ScanIdle

\* wcagResults.set(sc, verdict) for an id not yet in the map
AddVerdict ==
    /\ pc = "verdicts"
    /\ Len(wcagResults) < MaxVerdicts
    /\ \E sc \in VerdictIds, status \in {"fail", "incomplete", "pass"} :
          /\ \A i \in DOMAIN wcagResults : wcagResults[i].sc # sc
          /\ wcagResults' = Append(wcagResults, Verdict(sc, status))
    /\ UNCHANGED <<pc, scanResults>>
    /\ UNCHANGED outsideAgg

\* scores = scoreQuestions(product, wcagResults)
ScoreVerdicts ==
    /\ pc = "verdicts"
    /\ \E body \in AutoTemplates :
          /\ product' = BuildProduct(body, 0)
          /\ carryForwardScores' = None
          /\ scores' = ScoreQuestions(product', wcagResults, None)
    /\ pc' = "scored"
    /\ UNCHANGED aggVars
    /\ UNCHANGED outsideScore

NextVerdicts == AddVerdict \/ ScoreVerdicts

SpecVerdicts == InitVerdicts /\ [][NextVerdicts]_vars

(***************************************************************************)
(* textsMatch on its own.  The template text is MaxHits words that each    *)
(* contain the word "abc" followed by MaxMisses words that do not, written *)
(* in one of a few styles of spacing, punctuation and case; the mapping    *)
(* text is one of a few short texts.                                       *)
(***************************************************************************)
MaxHits == 7
MaxMisses == 3

HitWord(upper, i) ==
    (IF upper THEN <<"A", "B", "C">> ELSE <<"a", "b", "c">>) \o NatStr(i)

MissWord(i) == <<"x", "y", "z">> \o NatStr(i)

Separators == { <<" ">>, <<"\t", " ">>, <<",", " ">>, <<" ", "-", " ">> }

RECURSIVE JoinWords(_, _)
JoinWords(words, sep) ==
    IF words = <<>> THEN <<>>
    ELSE IF Len(words) = 1 THEN words[1]
    ELSE words[1] \o sep \o JoinWords(Tail(words), sep)

TemplateText(k, m, upper, sep) ==
    JoinWords([i \in 1..k |-> HitWord(upper, i)] \o [i \in 1..m |-> MissWord(i)], sep)

\* texts without a word of more than two characters
ShortTexts == { <<"?">>, <<"Q", " ", " ", "w", "!">>, <<"o", "k">> }

TemplateTexts ==
    { TemplateText(k, m, upper, sep) :
        k \in 0..MaxHits, m \in 0..MaxMisses, upper \in BOOLEAN, sep \in Separators }
    \cup ShortTexts

MappingTexts ==
    { <<>>,
      <<" ", "!">>,
      <<"q", " ", "w">>,
      <<"a", "b", "c">>,
      <<"A", "B", "C", ",", " ", "q", "q">>,
      <<"a", "b", "c", "1", " ", "a", "b", "c", "2">>,
      <<"z", "a", "b", "c", "1", "z", " ", "x", "y", "z", "1">> }

InitMatch ==
    /\ pc = "texts"
    /\ matchTemplate \in TemplateTexts
    /\ matchMapping \in MappingTexts
    /\ matched = None
    /\ TagIdle
    /\ AggIdle
    /\ ScoreIdle
    /\ ClassifyIdle
    /\ CellIdle
    /\ DocIdle
    /\ RunIdle
    /\ ExtractIdle
    /\ SummaryIdle
    /\ MappingIdle
    /\ ScanIdle

\* matched = textsMatch(matchTemplate, matchMapping)
Match ==
    /\ pc = "texts"
    /\ matched' = Some(TextsMatch(matchTemplate, matchMapping))
    /\ pc' = "matched"
    /\ UNCHANGED <<matchTemplate, matchMapping>>
    /\ UNCHANGED outsideMatch

NextMatch == Match

SpecMatch == InitMatch /\ [][NextMatch]_vars

(***************************************************************************)
(* classifyRow on its own: a row of up to MaxCells cell texts.  The first  *)
(* cell is one of the texts the rules tell apart, the others are empty,    *)
(* blank or hold a number.                                                 *)
(***************************************************************************)
MaxCells == 3

FirstCells ==
    { <<>>,
      <<" ", " ">>,
      <<"Q", "u", "e", "s", "t", "i", "o", "n", "s">>,
      <<" ", "Q", "U", "E", "S", "T", "I", "O", "N", "S", " ">>,
      <<"q", "u", "e", "s", "t", "i", "o", "n", "s", "?">>,
      <<"C", "a", "t", "e", "g", "o", "r", "y", " ", "S", "u", "b", "t", "o", "t", "a", "l">>,
      <<"x", " ", "c", "a", "t", "e", "g", "o", "r", "y", " ", "S", "U", "B", "T", "O", "T", "A", "L", ":">>,
      <<"1", ".", "1", ":", " ", "a">>,
      <<" ", "1", "2", ".", "3", ":">>,
      <<"1", ".", "1", " ", "a">>,
      <<"1", ".", ":">>,
      <<".", "1", ":">>,
      <<"a", " ", "1", ".", "1", ":">>,
      <<"a", "b", "c">> }

OtherCells == { <<>>, <<" ">>, <<"3">> }

RECURSIVE RowsOf(_)
RowsOf(n) ==
    IF n = 0 THEN { <<>> }
    ELSE IF n = 1 THEN { <<f>> : f \in FirstCells }
    ELSE { Append(r, c) : r \in RowsOf(n - 1), c \in OtherCells }

InitClassify ==
    /\ pc = "row"
    /\ rowCells \in UNION { RowsOf(n) : n \in 0..MaxCells }
    /\ rowType = None
    /\ TagIdle
    /\ AggIdle
    /\ ScoreIdle
    /\ MatchIdle
    /\ CellIdle
    /\ DocIdle
    /\ RunIdle
    /\ ExtractIdle
    /\ SummaryIdle
    /\ MappingIdle
    /\ ScanIdle

\* rowType = classifyRow(rowCells, rowCells.length)
Classify ==
    /\ pc = "row"
    /\ rowType' = Some(ClassifyRow(rowCells))
    /\ pc' = "classified"
    /\ UNCHANGED rowCells
    /\ UNCHANGED outsideClassify

NextClassify == Classify

SpecClassify == InitClassify /\ [][NextClassify]_vars

(***************************************************************************)
(* setCellText on its own.  The cell has optional cell properties, a first *)
(* paragraph with optional paragraph properties and either no run or a     *)
(* first run of one of a few shapes followed by up to MaxExtraRuns further *)
(* runs or by a bookmark end, and up to MaxExtraParagraphs further         *)
(* paragraphs.                                                             *)
(***************************************************************************)
MaxExtraRuns == 2
MaxExtraParagraphs == 2

Properties(tagName, value) == Element(tagName, {value}, <<>>)

RunShapes ==
    { Element("w:r", {}, <<Properties("w:rPr", "b"), TextElement({}, <<"a">>)>>),
      Element("w:r", {}, <<TextElement({PreserveSpace}, <<"b", " ">>)>>),
      Element("w:r", {}, <<Properties("w:rPr", "i")>>),
      Element("w:r", {}, <<TextElement({}, <<"a">>), Element("w:tab", {}, <<>>),
                           TextElement({}, <<"b">>)>>) }

ExtraRun == Element("w:r", {}, <<TextElement({}, <<"c">>)>>)

ExtraParagraphs ==
    { Element("w:p", {}, <<>>),
      Element("w:p", {}, <<Element("w:r", {}, <<TextElement({}, <<"d">>)>>)>>) }

Repeat(x, n) == [i \in 1..n |-> x]

\* a paragraph child that is not a run and stands behind the first run
BookmarkEnd == Element("w:bookmarkEnd", {"id0"}, <<>>)

FirstParagraphs ==
    { Element("w:p", {}, pPr \o runs) :
        pPr \in { <<>>, <<Properties("w:pPr", "center")>> },
        runs \in { <<>> } \cup { <<r>> \o Repeat(ExtraRun, j) :
                                   r \in RunShapes, j \in 0..MaxExtraRuns }
                          \cup { <<r, BookmarkEnd>> : r \in RunShapes } }

Cells ==
    { Element("w:tc", {}, tcPr \o <<p>> \o Repeat(e, k)) :
        tcPr \in { <<>>, <<Properties("w:tcPr", "span")>> },
        p \in FirstParagraphs, e \in ExtraParagraphs, k \in 0..MaxExtraParagraphs }

CellTexts == { <<>>, <<"x">>, <<"1", " ", "2">> }

InitCell ==
    /\ pc = "cell"
    /\ cellOriginal \in Cells
    /\ cellNode = cellOriginal
    /\ cellText \in CellTexts
    /\ TagIdle
    /\ AggIdle
    /\ ScoreIdle
    /\ MatchIdle
    /\ ClassifyIdle
    /\ DocIdle
    /\ RunIdle
    /\ ExtractIdle
    /\ SummaryIdle
    /\ MappingIdle
    /\ ScanIdle

\* setCellText(cellNode, cellText)
SetText ==
    /\ pc = "cell"
    /\ cellNode' = SetCellText(cellNode, cellText)
    /\ pc' = "cellSet"
    /\ UNCHANGED <<cellOriginal, cellText>>
    /\ UNCHANGED outsideCell

NextCell == SetText

SpecCell == InitCell /\ [][NextCell]_vars

(***************************************************************************)
(* parseTemplate on its own.  The body holds up to MaxTables tables; table *)
(* i (0-based) is a standards table when i is a multiple of 5 and          *)
(* otherwise a table with one question named after i.  Paragraphs and a    *)
(* section mark may stand between and around the tables.                   *)
(***************************************************************************)
MaxTables == 11

SimpleCell(text) ==
    Element("w:tc", {},
            <<Properties("w:tcPr", "w"),
              Element("w:p", {}, <<Element("w:r", {}, <<TextElement({}, text)>>)>>)>>)

NodeRow(texts) == Element("w:tr", {}, [c \in DOMAIN texts |-> SimpleCell(texts[c])])

NodeTable(rows) ==
    Element("w:tbl", {},
            <<Properties("w:tblPr", "grid")>> \o [r \in DOMAIN rows |-> NodeRow(rows[r])])

NumberedQuestionRow(i, weight) ==
    << <<"q">> \o NatStr(i), weight, <<>>, <<>>, <<>> >>

NumberedTable(i, weight) ==
    IF i % TablesPerProduct = 0
    THEN NodeTable(StandardsTable)
    ELSE NodeTable(<<HeaderRow, NumberedQuestionRow(i, weight), SubtotalRow>>)

HeadingParagraph ==
    Element("w:p", {},
            <<Properties("w:pPr", "Heading1"),
              Element("w:r", {}, <<TextElement({}, <<"P">>)>>)>>)

BodyStyles == {"bare", "headed", "framed"}

\* the children of w:body for n tables
BodyOf(n, style, weight) ==
    LET Piece(i) == IF style = "headed"
                    THEN <<HeadingParagraph, NumberedTable(i, weight)>>
                    ELSE <<NumberedTable(i, weight)>>
        Pieces[i \in 0..n] ==
            IF i = 0 THEN <<>> ELSE Pieces[i - 1] \o Piece(i - 1)
    IN  IF style = "framed"
        THEN <<HeadingParagraph>> \o Pieces[n] \o <<Properties("w:sectPr", "page")>>
        ELSE Pieces[n]

Documents ==
    { [hasBody |-> TRUE, body |-> BodyOf(n, style, weight)] :
        n \in 0..MaxTables, style \in BodyStyles, weight \in { <<"1">>, <<"2">>, <<"3">> } }
    \cup { NoDocument }

InitParse ==
    /\ pc = "document"
    /\ template \in Documents
    /\ parsedDoc = <<>>
    /\ products = <<>>
    /\ parseError = None
    /\ TagIdle
    /\ AggIdle
    /\ ScoreIdle
    /\ MatchIdle
    /\ ClassifyIdle
    /\ CellIdle
    /\ RunIdle
    /\ ExtractIdle
    /\ SummaryIdle
    /\ MappingIdle
    /\ ScanIdle

\* { products, parsedDoc } = await parseTemplate(templatePath), or it throws
Parse ==
    /\ pc = "document"
    /\ LET r == ParseTemplate(template)
       IN  /\ products' = r.products
           /\ parseError' = r.error
    /\ parsedDoc' = template.body
    /\ pc' = "parsed"
    /\ UNCHANGED template
    /\ UNCHANGED outsideDoc

NextParse == Parse

SpecParse == InitParse /\ [][NextParse]_vars

(***************************************************************************)
(* runProduct: one run of the command for one configuration.  The template *)
(* holds up to two products and a trailing table; the first category table *)
(* of each product holds section 1.1 with one question row, whose cells    *)
(* come in the shapes a word processor leaves, and a subtotal row of 5, 7  *)
(* or 11 cells; the other category tables hold one question each.  The    *)
(* scan visits one page and may fail on it.                                *)
(***************************************************************************)
MaxTrailing == 2
MaxIndex == 2

\* a cell whose paragraph has no run
EmptyCell ==
    Element("w:tc", {},
            <<Properties("w:tcPr", "w"),
              Element("w:p", {}, <<Properties("w:pPr", "left")>>)>>)

\* a cell whose text is split over two runs of one paragraph
SplitRunCell(a, b) ==
    Element("w:tc", {},
            <<Properties("w:tcPr", "w"),
              Element("w:p", {}, <<Element("w:r", {}, <<Properties("w:rPr", "b"),
                                                         TextElement({}, a)>>),
                                   Element("w:r", {}, <<TextElement({}, b)>>)>>)>>)

\* a cell of two paragraphs
TwoParagraphCell(a, b) ==
    Element("w:tc", {},
            <<Properties("w:tcPr", "w"),
              Element("w:p", {}, <<Element("w:r", {}, <<TextElement({}, a)>>)>>),
              Element("w:p", {}, <<Element("w:r", {}, <<TextElement({}, b)>>)>>)>>)

TrailingCells(n) == [i \in 1..n |-> SimpleCell(<<"t">>)]

RowOfCells(cells) == Element("w:tr", {}, <<Properties("w:trPr", "h")>> \o cells)

QuestionRowNodes ==
    { RowOfCells(<<SimpleCell(RowAutoText), SimpleCell(<<"3">>), SimpleCell(<<>>),
                   EmptyCell, cm>> \o TrailingCells(n)) :
        cm \in { SimpleCell(<<>>), EmptyCell, SplitRunCell(<<"o">>, <<"k">>) },
        n \in 0..MaxTrailing }
    \cup
    { RowOfCells(<<SimpleCell(RowManualText), SimpleCell(<<"3">>), SimpleCell(<<"1">>),
                   SimpleCell(<<"3">>), cm>> \o TrailingCells(n)) :
        cm \in { SimpleCell(<<>>), SimpleCell(<<"o", "k">>), SimpleCell(<<" ">>),
                 TwoParagraphCell(<<"o">>, <<"k">>) },
        n \in 0..MaxTrailing }
    \cup
    { RowOfCells(<<SimpleCell(RowManualText), SimpleCell(<<"3">>), SimpleCell(<<>>),
                   SimpleCell(<<>>), SimpleCell(<<>>)>>),
      RowOfCells(<<SimpleCell(RowAutoText), SimpleCell(<<"3">>), SimpleCell(<<>>),
                   SimpleCell(<<>>)>>) }

SubtotalCellCounts == {5, 7, 11}

SubtotalRowNode(cellCount) ==
    RowOfCells([i \in 1..cellCount |->
                   IF i = 1 THEN SimpleCell(SubtotalRow[1]) ELSE SimpleCell(<<>>)])

ScoredTable(q, cellCount) ==
    Element("w:tbl", {},
            <<Properties("w:tblPr", "grid"), NodeRow(HeaderRow), NodeRow(Section11Row),
              q, SubtotalRowNode(cellCount)>>)

DateParagraph ==
    Element("w:p", {},
            <<Element("w:r", {}, <<TextElement({}, ReportDateLiteral \o <<" ">>)>>),
              Element("w:r", {}, <<TextElement({}, <<"1", "/", "2", "/", "2", "4">>)>>)>>)

\* the children of w:body: table i (0-based) of n
RunBody(n, q, cellCount, headed) ==
    LET TableAt(i) == IF i % TablesPerProduct = 1 THEN ScoredTable(q, cellCount)
                      ELSE NumberedTable(i, <<"2">>)
        Piece(i) == IF headed /\ i % TablesPerProduct = 0
                    THEN <<HeadingParagraph, DateParagraph, TableAt(i)>>
                    ELSE <<TableAt(i)>>
        Pieces[i \in 0..n] == IF i = 0 THEN <<>> ELSE Pieces[i - 1] \o Piece(i - 1)
    IN  Pieces[n]

RunDocuments ==
    { [hasBody |-> TRUE, body |-> RunBody(n, q, cellCount, n > TablesPerProduct)] :
        n \in {TablesPerProduct, 2 * TablesPerProduct + 1},
        q \in QuestionRowNodes, cellCount \in SubtotalCellCounts }
    \cup { [hasBody |-> TRUE, body |-> BodyOf(n, "headed", <<"2">>)] :
             n \in {0, TablesPerProduct - 1} }
    \cup { NoDocument }

RunScans ==
    { << [url |-> "u1", violations |-> <<>>, passes |-> <<>>, incomplete |-> <<>>] >>,
      << [url |-> "u1", violations |-> <<Finding("d1", <<Tag111>>)>>,
          passes |-> <<>>, incomplete |-> <<>>] >>,
      << [url |-> "u1", violations |-> <<>>,
          passes |-> <<Finding("p", <<Tag111>>)>>, incomplete |-> <<>>] >> }

ReportDate == <<"3", "/", "4", "/", "2", "6">>

\* the carry-forward file a configuration may name, and the scores it holds:
\* one for the question row (row 2) of the first category table of either
\* product
CarryForwardFile == "carry-forward.json"

CarryForwardFileScores ==
    [k \in {<<1, 2>>, <<TablesPerProduct + 1, 2>>} |->
        [score |-> Some(1), comment |-> <<"c", "f">>]]

RunConfigs ==
    { [productSectionIndex |-> i, scanOnly |-> so, dryRun |-> dr,
       reportDate |-> ReportDate, carryForwardPath |-> cf] :
        i \in 0..MaxIndex,
        so \in BOOLEAN, dr \in BOOLEAN, cf \in {None, Some(CarryForwardFile)} }

RemediationFile == "remediation.md"
ScanResultsFile == "scan-results.json"
OutputFile == "output.docx"

Succeeded == Some([success |-> TRUE, error |-> None])
Failed(message) == Some([success |-> FALSE, error |-> Some(message)])

\* `Product section index ${config.productSectionIndex} not found`
ProductNotFoundError == "Product section index not found"

InitRun ==
    /\ pc = "run"
    /\ runConfig \in RunConfigs
    /\ template \in RunDocuments
    /\ files = {}
    /\ runResult = None
    /\ parsedDoc = <<>>
    /\ products = <<>>
    /\ parseError = None
    /\ TagIdle
    /\ AggIdle
    /\ ScoreIdle
    /\ MatchIdle
    /\ ClassifyIdle
    /\ CellIdle
    /\ ExtractIdle
    /\ SummaryIdle
    /\ MappingIdle
    /\ ScanIdle

\* step 1 and the remediation report
RunScan ==
    /\ pc = "run"
    /\ \E r \in RunScans : scanResults' = r
    /\ files' = files \cup {RemediationFile}
    /\ pc' = "scanned"
    /\ UNCHANGED <<wcagResults, runConfig, runResult>>
    /\ UNCHANGED <<tagVars, scoreVars, matchVars, classifyVars,
                   cellVars, docVars, extractVars, summaryVars, mappingVars, scanVars>>

\* if (options.scanOnly)
RunScanOnly ==
    /\ pc = "scanned"
    /\ runConfig.scanOnly
    /\ files' = files \cup {ScanResultsFile}
    /\ runResult' = Succeeded
    /\ pc' = "ended"
    /\ UNCHANGED runConfig
    /\ UNCHANGED outsideRun

RunParse_WriteFirst ==
    \* the output file is created before the template is read
    /\ pc = "scanned"
    /\ ~runConfig.scanOnly
    /\ wcagResults' = AggregateResults(scanResults)
    /\ parsedDoc' = template.body
    /\ LET r   == ParseTemplate(template)
           idx == runConfig.productSectionIndex + 1
       IN  /\ products' = r.products
           /\ parseError' = r.error
           /\ IF r.error # None
              THEN /\ runResult' = Failed(r.error[1])
                   /\ pc' = "ended"
                   /\ UNCHANGED product
              ELSE IF idx \notin DOMAIN r.products
              THEN /\ runResult' = Failed(ProductNotFoundError)
                   /\ pc' = "ended"
                   /\ UNCHANGED product
              ELSE /\ product' = r.products[idx]
                   /\ pc' = "selected"
                   /\ UNCHANGED runResult
    /\ files' = files \cup {OutputFile}
    /\ UNCHANGED <<scanResults, template, carryForwardScores, scores, runConfig>>
    /\ UNCHANGED <<tagVars, matchVars, classifyVars, cellVars, extractVars, summaryVars, mappingVars, scanVars>>

\* steps 2 and 3 up to the choice of the product
RunParse ==
    /\ pc = "scanned"
    /\ ~runConfig.scanOnly
    /\ wcagResults' = AggregateResults(scanResults)
    /\ parsedDoc' = template.body
    /\ LET r   == ParseTemplate(template)
           idx == runConfig.productSectionIndex + 1
       IN  /\ products' = r.products
           /\ parseError' = r.error
           /\ IF r.error # None
              THEN /\ runResult' = Failed(r.error[1])
                   /\ pc' = "ended"
                   /\ UNCHANGED product
              ELSE IF idx \notin DOMAIN r.products
              THEN /\ runResult' = Failed(ProductNotFoundError)
                   /\ pc' = "ended"
                   /\ UNCHANGED product
              ELSE /\ product' = r.products[idx]
                   /\ pc' = "selected"
                   /\ UNCHANGED runResult
    /\ UNCHANGED <<scanResults, template, carryForwardScores, scores, runConfig, files>>
    /\ UNCHANGED <<tagVars, matchVars, classifyVars, cellVars, extractVars, summaryVars, mappingVars, scanVars>>

\* scoreQuestions(product, wcagResults), scoringSummary(scores), then if (options.dryRun)
RunScore ==
    /\ pc = "selected"
    /\ scores' = ScoreQuestions(product, wcagResults, None)
    /\ summary' = Some(ScoringSummary(scores'))
    /\ IF runConfig.dryRun
       THEN runResult' = Succeeded /\ pc' = "ended"
       ELSE UNCHANGED runResult /\ pc' = "scored"
    /\ UNCHANGED <<product, carryForwardScores, runConfig, files>>
    /\ UNCHANGED <<tagVars, aggVars, matchVars, classifyVars,
                   cellVars, docVars, extractVars, mappingVars, scanVars>>

\* step 4: await generateDocx(zip, parsedDoc, product, scores, reportDate, outputPath)
RunGenerate ==
    /\ pc = "scored"
    /\ parsedDoc' = GenerateDocx(parsedDoc, product, scores, runConfig.reportDate)
    /\ files' = files \cup {OutputFile}
    /\ runResult' = Succeeded
    /\ pc' = "ended"
    /\ UNCHANGED <<template, products, parseError, runConfig>>
    /\ UNCHANGED <<tagVars, aggVars, scoreVars, matchVars,
                   classifyVars, cellVars, extractVars, summaryVars, mappingVars, scanVars>>

NextRun == RunScan \/ RunScanOnly \/ RunParse \/ RunScore \/ RunGenerate

SpecRun == InitRun /\ [][NextRun]_vars

(***************************************************************************)
(* The writer as a library: parseTemplate, scoreQuestions with or without  *)
(* a carry-forward map, then generateDocx, on a template of one product    *)
(* whose first category table holds one question row.                      *)
(***************************************************************************)
\* unscored manual rows that already carry a comment
CommentedRowNodes ==
    { RowOfCells(<<SimpleCell(RowManualText), SimpleCell(<<"3">>), SimpleCell(<<>>),
                   SimpleCell(<<>>), SimpleCell(<<"o", "k">>)>> \o TrailingCells(n)) :
        n \in 0..MaxTrailing }

WriteDocuments ==
    { [hasBody |-> TRUE, body |-> RunBody(TablesPerProduct, q, cellCount, FALSE)] :
        q \in QuestionRowNodes \cup CommentedRowNodes,
        cellCount \in SubtotalCellCounts }

\* the question row is row 2 of table 1
WriteCarryForwards ==
    {None} \cup { Some([k \in {<<1, 2>>} |-> v]) :
                    v \in { [score |-> Some(1), comment |-> <<>>],
                            [score |-> Some(0), comment |-> <<"c", "f">>] } }

InitWrite ==
    /\ pc = "document"
    /\ template \in WriteDocuments
    /\ parsedDoc = <<>>
    /\ products = <<>>
    /\ parseError = None
    /\ TagIdle
    /\ AggIdle
    /\ ScoreIdle
    /\ MatchIdle
    /\ ClassifyIdle
    /\ CellIdle
    /\ RunIdle
    /\ ExtractIdle
    /\ SummaryIdle
    /\ MappingIdle
    /\ ScanIdle

\* aggregateResults, then scoreQuestions(products[0], wcagResults, carryForwardScores)
ScoreParsed ==
    /\ pc = "parsed"
    /\ parseError = None
    /\ \E r \in RunScans, cf \in WriteCarryForwards :
          /\ scanResults' = r
          /\ wcagResults' = AggregateResults(r)
          /\ product' = products[1]
          /\ carryForwardScores' = cf
          /\ scores' = ScoreQuestions(products[1], wcagResults', cf)
    /\ pc' = "scoredDoc"
    /\ UNCHANGED <<tagVars, matchVars, classifyVars, cellVars,
                   docVars, runVars, extractVars, summaryVars, mappingVars, scanVars>>

\* generateDocx(zip, parsedDoc, product, scores, reportDate, outputPath)
Generate ==
    /\ pc = "scoredDoc"
    /\ parsedDoc' = GenerateDocx(parsedDoc, product, scores, ReportDate)
    /\ pc' = "written"
    /\ UNCHANGED <<template, products, parseError>>
    /\ UNCHANGED outsideDoc

NextWrite == Parse \/ ScoreParsed \/ Generate

SpecWrite == InitWrite /\ [][NextWrite]_vars

(***************************************************************************)
(* extractQuestions and scoreQuestions on one product.  The first category *)
(* table holds up to MaxRows rows under its header, the second one of a    *)
(* few row lists, among them a question with no section above it.          *)
(***************************************************************************)
MaxRows == 2

BlankRow == <<<<>>, <<>>, <<>>, <<>>, <<>>>>

RowChoices ==
    { Section11Row, Section12Row, BlankRow,
      <<RowAutoText, <<"3">>, <<>>, <<>>, <<>>>>,
      <<RowManualText, <<"3">>, <<"1">>, <<"3">>, <<>>>>,
      <<RowUnknownText, <<"2">>, <<>>, <<>>, <<>>>> }

RECURSIVE RowLists(_)
RowLists(n) ==
    IF n = 0 THEN { <<>> }
    ELSE RowLists(n - 1)
         \cup { Append(l, r) : l \in { x \in RowLists(n - 1) : Len(x) = n - 1 },
                               r \in RowChoices }

SecondTables ==
    { <<HeaderRow>>,
      <<HeaderRow, <<RowAutoText, <<"3">>, <<>>, <<>>, <<>>>>, SubtotalRow>>,
      <<<<RowManualText, <<"3">>, <<>>, <<>>, <<>>>>>>,
      <<HeaderRow, Section12Row, <<RowAutoText, <<"3">>, <<>>, <<>>, <<>>>>>>,
      <<HeaderRow, <<RowManualText, <<"3">>, <<"1">>, <<"3">>, <<>>>>,
        <<RowUnknownText, <<"2">>, <<>>, <<>>, <<>>>>>> }

ExtractBodies ==
    { <<StandardsTable, <<HeaderRow>> \o l \o <<SubtotalRow>>, t2,
        <<HeaderRow>>, <<HeaderRow>>>> :
        l \in RowLists(MaxRows), t2 \in SecondTables }

VerdictLists ==
    { <<>>,
      AggregateResults(<< [url |-> "u1", violations |-> <<Finding("d1", <<Tag111>>)>>,
                           passes |-> <<>>, incomplete |-> <<>>] >>),
      AggregateResults(<< [url |-> "u1", violations |-> <<>>,
                           passes |-> <<Finding("p", <<Tag111>>)>>,
                           incomplete |-> <<Finding("i", <<Tag112>>)>>] >>) }

\* the first row under the header of the first category table
ExtractCarryForwards ==
    { None, Some([k \in {<<1, 1>>} |-> [score |-> Some(0), comment |-> <<"c", "f">>]]) }

InitExtract ==
    /\ pc = "product"
    /\ product \in { BuildProduct(b, 0) : b \in ExtractBodies }
    /\ carryForwardScores = None
    /\ scores = <<>>
    /\ questions = <<>>
    /\ summary = None
    /\ TagIdle
    /\ AggIdle
    /\ MatchIdle
    /\ ClassifyIdle
    /\ CellIdle
    /\ DocIdle
    /\ RunIdle
    /\ MappingIdle
    /\ ScanIdle

\* questions = extractQuestions(product)
Extract ==
    /\ pc = "product"
    /\ questions' = ExtractQuestions(product)
    /\ pc' = "extracted"
    /\ UNCHANGED outsideExtract

\* scores = scoreQuestions(product, wcagResults, carryForwardScores)
ScoreExtracted ==
    /\ pc = "extracted"
    /\ \E rs \in VerdictLists, cf \in ExtractCarryForwards :
          /\ wcagResults' = rs
          /\ carryForwardScores' = cf
          /\ scores' = ScoreQuestions(product, rs, cf)
    /\ pc' = "scored"
    /\ UNCHANGED <<scanResults, product, questions>>
    /\ UNCHANGED <<tagVars, matchVars, classifyVars, cellVars, docVars, runVars,
                   summaryVars, mappingVars, scanVars>>

\* summary = scoringSummary(scores)
Summarize ==
    /\ pc = "scored"
    /\ summary' = Some(ScoringSummary(scores))
    /\ pc' = "summarized"
    /\ UNCHANGED outsideSummary

NextExtract == Extract \/ ScoreExtracted \/ Summarize

SpecExtract == InitExtract /\ [][NextExtract]_vars

(***************************************************************************)
(* The mapping cache.  The mapping file is absent or holds one of a few    *)
(* mappings, and is written and removed from outside; up to MaxCalls calls *)
(* of loadQuestionMapping and of scoreQuestions are made on one product    *)
(* and one list of verdicts.                                               *)
(***************************************************************************)
MaxCalls == 3

\* section 1.1 with the two questions, both for manual review
ManualOnlyMapping ==
    << [wcagSc    |-> Prefix11,
        questions |-> << [questionText |-> AutoQuestionText, automatable |-> FALSE],
                         [questionText |-> ManualQuestionText, automatable |-> FALSE] >>] >>

MappingFiles == { QuestionMapping, ManualOnlyMapping, <<>> }

MappingBodies ==
    { <<StandardsTable,
        <<HeaderRow, Section11Row, <<RowAutoText, <<"3">>, <<>>, <<>>, <<>>>>, SubtotalRow>>,
        <<HeaderRow>>, <<HeaderRow>>, <<HeaderRow>>>>,
      <<StandardsTable,
        <<HeaderRow, Section11Row, <<RowAutoText, <<"3">>, <<>>, <<>>, <<>>>>,
          <<RowManualText, <<"3">>, <<"1">>, <<"3">>, <<>>>>, SubtotalRow>>,
        <<HeaderRow>>, <<HeaderRow>>, <<HeaderRow>>>> }

InitMapping ==
    /\ pc = "mapping"
    /\ mappingFile \in {None} \cup { Some(m) : m \in MappingFiles }
    /\ cachedMapping = None
    /\ loadResult = None
    /\ calls = 0
    /\ failedCalls = 0
    /\ scanResults = <<>>
    /\ wcagResults \in VerdictLists
    /\ product \in { BuildProduct(b, 0) : b \in MappingBodies }
    /\ carryForwardScores = None
    /\ scores = <<>>
    /\ TagIdle
    /\ MatchIdle
    /\ ClassifyIdle
    /\ CellIdle
    /\ DocIdle
    /\ RunIdle
    /\ ExtractIdle
    /\ SummaryIdle
    /\ ScanIdle

\* scripts/dump-template-questions.ts writes the file
WriteMappingFile ==
    /\ \E m \in MappingFiles :
          /\ mappingFile # Some(m)
          /\ mappingFile' = Some(m)
    /\ UNCHANGED <<pc, cachedMapping, loadResult, calls, failedCalls>>
    /\ UNCHANGED outsideMapping

RemoveMappingFile ==
    /\ mappingFile # None
    /\ mappingFile' = None
    /\ UNCHANGED <<pc, cachedMapping, loadResult, calls, failedCalls>>
    /\ UNCHANGED outsideMapping

\* what a call of loadQuestionMapping does to the cache and the counters
Load ==
    LET r == LoadQuestionMapping(cachedMapping, mappingFile)
    IN  /\ calls < MaxCalls
        /\ cachedMapping' = r.cache
        /\ loadResult' = Some([value |-> r.value, error |-> r.error])
        /\ calls' = calls + 1
        /\ failedCalls' = failedCalls + (IF r.error # None THEN 1 ELSE 0)
        /\ UNCHANGED <<pc, mappingFile>>

\* loadQuestionMapping()
LoadCall ==
    /\ Load
    /\ UNCHANGED outsideMapping

\* scoreQuestions(product, wcagResults): the error of loadQuestionMapping
\* propagates, otherwise the pass reads the mapping now in the cache
ScoreCall ==
    /\ Load
    /\ UNCHANGED <<aggVars, product, carryForwardScores>>
    /\ IF LoadQuestionMapping(cachedMapping, mappingFile).error # None
       THEN UNCHANGED scores
       ELSE scores' = ScoreQuestions(product, wcagResults, carryForwardScores)
    /\ UNCHANGED <<tagVars, matchVars, classifyVars, cellVars, docVars, runVars,
                   extractVars, summaryVars, scanVars>>

NextMapping == WriteMappingFile \/ RemoveMappingFile \/ LoadCall \/ ScoreCall

SpecMapping == InitMapping /\ [][NextMapping]_vars

(***************************************************************************)
(* scanUrls.  The callbacks of batch.map run concurrently: each one is at  *)
(* an await (newContext, newPage, the scan, context.close) until the       *)
(* awaited promise settles, and any of these promises may reject.  A       *)
(* rejection inside the try block is caught and gives the empty result; a  *)
(* rejection outside it rejects the callback, Promise.all and scanUrls,    *)
(* while the other callbacks of the batch run on.  The timestamp of a      *)
(* result is left out.                                                     *)
(***************************************************************************)
MaxUrls == 3
MaxConcurrency == 2

UrlAt(k) == <<"u", k>>

\* what scanUrl returns for a page it could scan
PageResult(url) ==
    [url |-> url, violations |-> <<"v">>, passes |-> <<"p">>, incomplete |-> <<>>]

\* the result built in the catch block
FailedResult(url) ==
    [url |-> url, violations |-> <<>>, passes |-> <<>>, incomplete |-> <<>>]

\* the positions (1-based) of urls.slice(i, i + options.concurrency)
Batch(i) == { k \in DOMAIN urls : i < k /\ k <= i + concurrency }

BatchResults_Reversed(first, last, taskResults) ==
    \* the results of the batch, last URL first
    [k \in 1..(last - first + 1) |-> taskResults[last - k + 1][1]]

\* what Promise.all fulfils with: the values of the callbacks in the order
\* of the batch
BatchResults(first, last, taskResults) ==
    [k \in 1..(last - first + 1) |-> taskResults[first + k - 1][1]]

\* the callbacks of a batch start: each calls browser.newContext()
StartBatch(i) ==
    stage' = [k \in DOMAIN urls |-> IF k \in Batch(i) THEN "newContext" ELSE stage[k]]

InitScan ==
    /\ pc = "launch"
    /\ urls \in { [k \in 1..n |-> UrlAt(k)] : n \in 1..MaxUrls }
    /\ concurrency \in 1..MaxConcurrency
    /\ browser = "none"
    /\ batchStart = 0
    /\ stage = [k \in DOMAIN urls |-> "pending"]
    /\ contexts = [k \in DOMAIN urls |-> "none"]
    /\ taskResult = [k \in DOMAIN urls |-> None]
    /\ finished = <<>>
    /\ resultList = <<>>
    /\ TagIdle
    /\ AggIdle
    /\ ScoreIdle
    /\ MatchIdle
    /\ ClassifyIdle
    /\ CellIdle
    /\ DocIdle
    /\ RunIdle
    /\ ExtractIdle
    /\ SummaryIdle
    /\ MappingIdle

\* chromium.launch() resolves; the loop starts the first batch
Launch ==
    /\ pc = "launch"
    /\ browser' = "open"
    /\ StartBatch(0)
    /\ pc' = "await"
    /\ UNCHANGED <<urls, concurrency, batchStart, contexts, taskResult, finished,
                   resultList>>
    /\ UNCHANGED outsideScan

\* chromium.launch() rejects
LaunchFails ==
    /\ pc = "launch"
    /\ pc' = "threw"
    /\ UNCHANGED scanVars
    /\ UNCHANGED outsideScan

\* a callback rejects: Promise.all rejects with it, and scanUrls, if it is
\* still waiting, throws
Reject(k) ==
    /\ stage' = [stage EXCEPT ![k] = "rejected"]
    /\ pc' = IF pc = "await" THEN "threw" ELSE pc

\* browser.newContext() resolves
ContextOpened(k) ==
    /\ stage[k] = "newContext"
    /\ stage' = [stage EXCEPT ![k] = "newPage"]
    /\ contexts' = [contexts EXCEPT ![k] = "open"]
    /\ UNCHANGED <<pc, urls, concurrency, browser, batchStart, taskResult, finished,
                   resultList>>
    /\ UNCHANGED outsideScan

\* browser.newContext() rejects
ContextFails(k) ==
    /\ stage[k] = "newContext"
    /\ Reject(k)
    /\ UNCHANGED <<urls, concurrency, browser, batchStart, contexts, taskResult,
                   finished, resultList>>
    /\ UNCHANGED outsideScan

\* context.newPage() resolves; the try block is entered
PageOpened(k) ==
    /\ stage[k] = "newPage"
    /\ stage' = [stage EXCEPT ![k] = "scan"]
    /\ UNCHANGED <<pc, urls, concurrency, browser, batchStart, contexts, taskResult,
                   finished, resultList>>
    /\ UNCHANGED outsideScan

\* context.newPage() rejects, outside the try block
PageFails(k) ==
    /\ stage[k] = "newPage"
    /\ Reject(k)
    /\ UNCHANGED <<urls, concurrency, browser, batchStart, contexts, taskResult,
                   finished, resultList>>
    /\ UNCHANGED outsideScan

\* scanUrl resolves; the finally block calls context.close()
ScanSucceeds(k) ==
    /\ stage[k] = "scan"
    /\ stage' = [stage EXCEPT ![k] = "close"]
    /\ taskResult' = [taskResult EXCEPT ![k] = Some(PageResult(urls[k]))]
    /\ UNCHANGED <<pc, urls, concurrency, browser, batchStart, contexts, finished,
                   resultList>>
    /\ UNCHANGED outsideScan

\* onProgress or scanUrl throws; the catch block builds the empty result and
\* the finally block calls context.close()
ScanFails(k) ==
    /\ stage[k] = "scan"
    /\ stage' = [stage EXCEPT ![k] = "close"]
    /\ taskResult' = [taskResult EXCEPT ![k] = Some(FailedResult(urls[k]))]
    /\ UNCHANGED <<pc, urls, concurrency, browser, batchStart, contexts, finished,
                   resultList>>
    /\ UNCHANGED outsideScan

\* context.close() resolves and the callback returns its result
ContextClosed(k) ==
    /\ stage[k] = "close"
    /\ stage' = [stage EXCEPT ![k] = "fulfilled"]
    /\ contexts' = [contexts EXCEPT ![k] = "closed"]
    /\ finished' = Append(finished, k)
    /\ UNCHANGED <<pc, urls, concurrency, browser, batchStart, taskResult, resultList>>
    /\ UNCHANGED outsideScan

\* context.close() rejects
CloseFails(k) ==
    /\ stage[k] = "close"
    /\ Reject(k)
    /\ UNCHANGED <<urls, concurrency, browser, batchStart, contexts, taskResult,
                   finished, resultList>>
    /\ UNCHANGED outsideScan

\* Promise.all fulfils: results.push(...batchResults), i += concurrency, and
\* either the next batch starts or the loop ends and browser.close() is called
BatchDone ==
    /\ pc = "await"
    /\ \A k \in Batch(batchStart) : stage[k] = "fulfilled"
    /\ LET last == IF batchStart + concurrency < Len(urls)
                   THEN batchStart + concurrency ELSE Len(urls)
       IN  resultList' = resultList \o BatchResults(batchStart + 1, last, taskResult)
    /\ batchStart' = batchStart + concurrency
    /\ IF batchStart + concurrency < Len(urls)
       THEN StartBatch(batchStart + concurrency) /\ pc' = "await"
       ELSE UNCHANGED stage /\ pc' = "closing"
    /\ UNCHANGED <<urls, concurrency, browser, contexts, taskResult, finished>>
    /\ UNCHANGED outsideScan

\* browser.close() resolves and scanUrls returns results
BrowserClosed ==
    /\ pc = "closing"
    /\ browser' = "closed"
    /\ pc' = "returned"
    /\ UNCHANGED <<urls, concurrency, batchStart, stage, contexts, taskResult,
                   finished, resultList>>
    /\ UNCHANGED outsideScan

NextScan ==
    \/ Launch
    \/ LaunchFails
    \/ \E k \in DOMAIN urls :
          \/ ContextOpened(k)
          \/ ContextFails(k)
          \/ PageOpened(k)
          \/ PageFails(k)
          \/ ScanSucceeds(k)
          \/ ScanFails(k)
          \/ ContextClosed(k)
          \/ CloseFails(k)
    \/ BatchDone
    \/ BrowserClosed

SpecScan == InitScan /\ [][NextScan]_vars

(***************************************************************************)
(* C7: parseWcagTag decodes a tag made of "wcag", one digit, one digit and *)
(* one or more digits to "<d>.<d>.<digits>" and returns null for every     *)
(* other tag; wcag111 gives 1.1.1, wcag1411 gives 1.4.11, wcag2a and cat   *)
(* give null.                                                              *)
(***************************************************************************)
IsCriterionTag(t) ==
    \E d1 \in Digits, d2 \in Digits, n \in 1..Len(t) :
        /\ Len(t) = 6 + n
        /\ t = WcagLiteral \o <<d1, d2>> \o SubSeq(t, 7, 6 + n)
        /\ \A i \in 7..(6 + n) : t[i] \in Digits

DecodedId(t) == <<t[5], ".", t[6], ".">> \o SubSeq(t, 7, Len(t))

C7_TagDecoding ==
    pc = "tagParsed" =>
        /\ IsCriterionTag(tag) => parsedTag = Some(DecodedId(tag))
        /\ ~IsCriterionTag(tag) => parsedTag = None
        /\ tag = <<"w", "c", "a", "g", "1", "1", "1">>
              => parsedTag = Some(<<"1", ".", "1", ".", "1">>)
        /\ tag = <<"w", "c", "a", "g", "1", "4", "1", "1">>
              => parsedTag = Some(<<"1", ".", "4", ".", "1", "1">>)
        /\ tag \in { <<"w", "c", "a", "g", "2", "a">>, <<"c", "a", "t">>,
                     <<"w", "c", "a", "g", "1", "1">> }
              => parsedTag = None

C7_Witness ==
    /\ pc = "tagParsed"
    /\ tag = <<"w", "c", "a", "g", "1", "4", "1", "1">>
    /\ parsedTag = Some(<<"1", ".", "4", ".", "1", "1">>)

(***************************************************************************)
(* What the claims about the aggregator speak of: the findings of the scan *)
(* results that are tagged with a criterion id.                            *)
(***************************************************************************)
TaggedWith(f, c) ==
    \E k \in DOMAIN f.wcagTags :
        IsCriterionTag(f.wcagTags[k]) /\ DecodedId(f.wcagTags[k]) = c

\* the positions <<result, index>> of the findings of a kind tagged with c
Entries(kind, c) ==
    UNION { { <<r, k>> : k \in { k \in DOMAIN scanResults[r][kind] :
                                   TaggedWith(scanResults[r][kind][k], c) } } :
            r \in DOMAIN scanResults }

HasEntry(kind, c) == Entries(kind, c) # {}

ViolatingUrls(c) == { scanResults[p[1]].url : p \in Entries("violations", c) }

(***************************************************************************)
(* C1: for every criterion id of the result of aggregateResults the        *)
(* verdict is fail if some scan result has a violation tagged with it,     *)
(* else incomplete if some scan result has an incomplete entry tagged with *)
(* it, else pass; a pass or incomplete of another resource never overrides *)
(* a violation.                                                            *)
(***************************************************************************)
C1_VerdictResolution ==
    pc = "aggregated" =>
        \A i \in DOMAIN wcagResults :
            LET c == wcagResults[i].sc
            IN  wcagResults[i].status =
                    IF HasEntry("violations", c) THEN "fail"
                    ELSE IF HasEntry("incomplete", c) THEN "incomplete"
                    ELSE "pass"

\* a violation on one resource, an incomplete entry on a later one: fail
C1_Witness ==
    /\ pc = "aggregated"
    /\ \E i \in DOMAIN wcagResults :
          /\ wcagResults[i].status = "fail"
          /\ \E p \in Entries("violations", wcagResults[i].sc),
                q \in Entries("incomplete", wcagResults[i].sc) : p[1] < q[1]

(***************************************************************************)
(* C2: totalViolations is the number of violation entries tagged with the  *)
(* id over all scan results, urlsWithViolations the number of distinct     *)
(* resources with such an entry, totalUrls the number of scan results;     *)
(* hence urlsWithViolations <= totalViolations and <= totalUrls.           *)
(***************************************************************************)
C2_ViolationCounts ==
    pc = "aggregated" =>
        \A i \in DOMAIN wcagResults :
            LET c == wcagResults[i].sc
                w == wcagResults[i]
            IN  /\ w.totalViolations = Cardinality(Entries("violations", c))
                /\ w.urlsWithViolations = Cardinality(ViolatingUrls(c))
                /\ w.totalUrls = Len(scanResults)
                /\ w.urlsWithViolations <= w.totalViolations
                /\ w.urlsWithViolations <= w.totalUrls

\* two violations of one criterion on one resource out of two
C2_Witness ==
    /\ pc = "aggregated"
    /\ \E i \in DOMAIN wcagResults :
          /\ wcagResults[i].totalViolations = 2
          /\ wcagResults[i].urlsWithViolations = 1
          /\ wcagResults[i].totalUrls = 2

(***************************************************************************)
(* C9: topIssues holds at most three descriptions, no duplicate, and lists *)
(* the distinct descriptions of the violations tagged with the id in the   *)
(* order they were first seen across the scan results.                     *)
(***************************************************************************)
Before(p, q) == p[1] < q[1] \/ (p[1] = q[1] /\ p[2] < q[2])

DescAt(p) == scanResults[p[1]].violations[p[2]].description

DistinctDescs(c) == { DescAt(p) : p \in Entries("violations", c) }

FirstSeen(c, d) ==
    CHOOSE p \in Entries("violations", c) :
        /\ DescAt(p) = d
        /\ \A q \in Entries("violations", c) :
              DescAt(q) = d => (q = p \/ Before(p, q))

C9_TopIssues ==
    pc = "aggregated" =>
        \A i \in DOMAIN wcagResults :
            LET c == wcagResults[i].sc
                t == wcagResults[i].topIssues
                n == Cardinality(DistinctDescs(c))
            IN  /\ Len(t) = IF n < 3 THEN n ELSE 3
                /\ \A a, b \in DOMAIN t : a # b => t[a] # t[b]
                /\ \A a \in DOMAIN t : t[a] \in DistinctDescs(c)
                /\ \A a, b \in DOMAIN t :
                      a < b => Before(FirstSeen(c, t[a]), FirstSeen(c, t[b]))
                /\ \A d \in DistinctDescs(c) :
                      (\A a \in DOMAIN t : t[a] # d) =>
                          \A a \in DOMAIN t :
                              Before(FirstSeen(c, t[a]), FirstSeen(c, d))

\* four distinct descriptions, first seen in an order that is not sorted
C9_Witness ==
    /\ pc = "aggregated"
    /\ \E i \in DOMAIN wcagResults :
          /\ Cardinality(DistinctDescs(wcagResults[i].sc)) = 4
          /\ wcagResults[i].topIssues = <<"d4", "d2", "d1">>


(***************************************************************************)
(* What the claims about the scorer speak of: the row a question score was *)
(* computed for, the section it stands under, and the verdicts of that     *)
(* section.                                                                *)
(***************************************************************************)
Scored == pc = "scored"

TableOf(q) ==
    product.tables[CHOOSE t \in DOMAIN product.tables :
                       product.tables[t].tableIndex = q.tableIndex]

RowOf(q) == TableOf(q).rows[q.rowIndex + 1]

\* the text of a section name before its colon
BeforeColon(name) ==
    LET colons == { i \in DOMAIN name : name[i] = ":" }
    IN  SubSeq(name, 1, (CHOOSE i \in colons : \A j \in colons : i <= j) - 1)

\* the prefix of the last section row above the question's row, "" when none
PrefixOf(q) ==
    LET rows == TableOf(q).rows
        secs == { i \in 1..q.rowIndex : rows[i].type = "section" }
    IN  IF secs = {} THEN <<>>
        ELSE BeforeColon(rows[CHOOSE i \in secs : \A j \in secs : j <= i].cells[1])

Gathered(prefix) ==
    { i \in DOMAIN wcagResults :
        LET sc == wcagResults[i].sc
        IN  \/ sc = prefix
            \/ /\ Len(sc) > Len(prefix)
               /\ SubSeq(sc, 1, Len(prefix) + 1) = prefix \o <<".">> }

GatheredStatuses(prefix) == { wcagResults[i].status : i \in Gathered(prefix) }

(***************************************************************************)
(* C3: every question score has weightedScore null exactly when score is   *)
(* null, and otherwise weightedScore = weight * score, whichever path      *)
(* (automated, preserved, carried forward) produced the score.             *)
(***************************************************************************)
C3_WeightedScoreLaw ==
    Scored =>
        \A n \in DOMAIN scores :
            LET q == scores[n]
            IN  /\ q.weightedScore = None <=> q.score = None
                /\ q.score # None => q.weightedScore = Some(q.weight * q.score[1])

\* an automated score of 1 on a question of weight 3
C3_Witness ==
    /\ Scored
    /\ \E n \in DOMAIN scores :
          /\ scores[n].automatable
          /\ scores[n].score = Some(1)
          /\ scores[n].weight = 3
          /\ scores[n].weightedScore = Some(3)

(***************************************************************************)
(* C4: an automatable question is scored from the verdicts whose id is the *)
(* section prefix or starts with prefix + "."; none gathered gives null    *)
(* with the no-coverage comment, any fail gives 0, else any incomplete     *)
(* gives null with the manual-review comment, else 1.  A verdict of        *)
(* another section, such as 1.10.1 for prefix 1.1, has no influence.       *)
(***************************************************************************)
C4_AutomatedScoring ==
    Scored =>
        \A n \in DOMAIN scores :
            LET q  == scores[n]
                g  == Gathered(PrefixOf(q))
                st == GatheredStatuses(PrefixOf(q))
            IN  q.automatable =>
                  /\ g = {} => q.score = None /\ q.comment = NoCoverageComment
                  /\ "fail" \in st => q.score = Some(0)
                  /\ ("fail" \notin st /\ "incomplete" \in st)
                        => q.score = None /\ q.comment = IncompleteComment
                  /\ (g # {} /\ "fail" \notin st /\ "incomplete" \notin st)
                        => q.score = Some(1)

\* the only failing verdict is 1.10.1 and the question under 1.1 has no coverage
C4_Witness ==
    /\ Scored
    /\ \E i \in DOMAIN wcagResults :
          wcagResults[i].sc = Sc1101 /\ wcagResults[i].status = "fail"
    /\ \E n \in DOMAIN scores :
          /\ scores[n].automatable
          /\ PrefixOf(scores[n]) = <<"1", ".", "1">>
          /\ scores[n].score = None
          /\ scores[n].comment = NoCoverageComment

(***************************************************************************)
(* C5: the comment of an automatable question scored 0 reports the total   *)
(* violation count of the failing verdicts gathered for its section, the   *)
(* number of distinct resources those violations are on, and at most three *)
(* issue descriptions.                                                     *)
(***************************************************************************)
FailingGathered(prefix) ==
    { i \in Gathered(prefix) : wcagResults[i].status = "fail" }

RECURSIVE SumOver(_, _)
SumOver(f, S) ==
    IF S = {} THEN 0
    ELSE LET x == CHOOSE y \in S : TRUE IN f[x] + SumOver(f, S \ {x})

ReportedViolations(prefix) ==
    SumOver([i \in DOMAIN wcagResults |-> wcagResults[i].totalViolations],
            FailingGathered(prefix))

AffectedResources(prefix) ==
    UNION { ViolatingUrls(wcagResults[i].sc) : i \in FailingGathered(prefix) }

CommentOpening(violations, resources) ==
    <<"Found ">> \o NumStr(violations) \o <<" violation(s) across ">>
        \o NumStr(resources) \o <<" page(s). Issues: ">>

C5_FailureComment ==
    Scored =>
        \A n \in DOMAIN scores :
            LET q    == scores[n]
                open == CommentOpening(ReportedViolations(PrefixOf(q)),
                                       Cardinality(AffectedResources(PrefixOf(q))))
            IN  (q.automatable /\ q.score = Some(0)) =>
                  /\ Len(q.comment) > Len(open)
                  /\ SubSeq(q.comment, 1, Len(open)) = open
                  \* n descriptions joined by "; " take 2n - 1 places
                  /\ Len(q.comment) - Len(open) <= 2 * CommentIssueCount - 1

\* two resources each violate 1.1.1 once and the comment speaks of one page
C5_Divergence ==
    /\ Scored
    /\ Len(scanResults) = 2
    /\ \A r \in DOMAIN scanResults :
          /\ scanResults[r].violations = <<Finding("d1", <<Tag111>>)>>
          /\ scanResults[r].passes = <<>>
          /\ scanResults[r].incomplete = <<>>
    /\ \E n \in DOMAIN scores :
          /\ scores[n].automatable
          /\ scores[n].score = Some(0)
          /\ scores[n].comment =
                <<"Found ", "2", " violation(s) across ", "1",
                  " page(s). Issues: ", "d1">>

(***************************************************************************)
(* C6: a question that is not automatable, or has no mapping definition,   *)
(* keeps a recorded score of '1' or '0' with the row's comment even when a *)
(* carry-forward value is supplied; else it takes a non-null carry-forward *)
(* score stored for exactly its (tableIndex, rowIndex) with that comment;  *)
(* else its score is null and its comment the row's comment, or 'Manual    *)
(* review required.' when the row has none.                                *)
(***************************************************************************)
CarriedFor(q) ==
    IF /\ carryForwardScores # None
       /\ <<q.tableIndex, q.rowIndex>> \in DOMAIN carryForwardScores[1]
    THEN Some(carryForwardScores[1][<<q.tableIndex, q.rowIndex>>])
    ELSE None

C6_ManualPrecedence ==
    Scored =>
        \A n \in DOMAIN scores :
            LET q        == scores[n]
                recorded == RowOf(q).score[1]
                existing == RowOf(q).comment[1]
                carried  == CarriedFor(q)
                useCarry == carried # None /\ carried[1].score # None
            IN  ~q.automatable =>
                  /\ recorded = <<"1">> => q.score = Some(1) /\ q.comment = existing
                  /\ recorded = <<"0">> => q.score = Some(0) /\ q.comment = existing
                  /\ (recorded \notin { <<"1">>, <<"0">> } /\ useCarry)
                        => /\ q.score = carried[1].score
                           /\ q.comment = carried[1].comment
                  /\ (recorded \notin { <<"1">>, <<"0">> } /\ ~useCarry)
                        => /\ q.score = None
                           /\ q.comment = IF existing = <<>>
                                          THEN <<"Manual review required.">>
                                          ELSE existing

\* a recorded '1' stays 1 against a carried 0 for the same row
C6_Witness ==
    /\ Scored
    /\ \E n \in DOMAIN scores :
          /\ ~scores[n].automatable
          /\ RowOf(scores[n]).score[1] = <<"1">>
          /\ CarriedFor(scores[n]) # None
          /\ CarriedFor(scores[n])[1].score = Some(0)
          /\ scores[n].score = Some(1)
          /\ scores[n].comment = <<"o", "k">>

(***************************************************************************)
(* C8: the keys of the aggregated map are exactly the criterion ids        *)
(* decoded from the tags of the violation, pass and incomplete entries of  *)
(* the scan results; a tag that does not decode adds no key; no result, or *)
(* only empty results, give an empty map, and every automatable question   *)
(* is then scored null with the no-coverage comment.                       *)
(***************************************************************************)
Kinds == {"violations", "passes", "incomplete"}

FindingsSeen ==
    UNION { { scanResults[r][kind][f] : f \in DOMAIN scanResults[r][kind] } :
            r \in DOMAIN scanResults, kind \in Kinds }

TagsSeen == UNION { { x.wcagTags[t] : t \in DOMAIN x.wcagTags } : x \in FindingsSeen }

NothingFound ==
    \A r \in DOMAIN scanResults, kind \in Kinds : scanResults[r][kind] = <<>>

C8_KeySet ==
    pc \in {"aggregated", "scored"} =>
        /\ { wcagResults[i].sc : i \in DOMAIN wcagResults }
              = { DecodedId(t) : t \in { u \in TagsSeen : IsCriterionTag(u) } }
        /\ \A i, j \in DOMAIN wcagResults :
              wcagResults[i].sc = wcagResults[j].sc => i = j
        /\ NothingFound => wcagResults = <<>>
        /\ (NothingFound /\ Scored) =>
              \A n \in DOMAIN scores :
                  scores[n].automatable =>
                      /\ scores[n].score = None
                      /\ scores[n].weightedScore = None
                      /\ scores[n].comment = NoCoverageComment

\* two failed scans, and an automatable question scored on them
C8_Witness ==
    /\ Scored
    /\ Len(scanResults) = 2
    /\ NothingFound
    /\ wcagResults = <<>>
    /\ \E n \in DOMAIN scores :
          /\ scores[n].automatable
          /\ scores[n].score = None
          /\ scores[n].comment = NoCoverageComment

(***************************************************************************)
(* C10: textsMatch is true when the texts are equal after normalization;   *)
(* otherwise it is true exactly when the number of words of more than two  *)
(* characters of the first text that are part of, or contain, such a word  *)
(* of the second, over the larger of the two word counts, is strictly      *)
(* more than 0.7.                                                          *)
(***************************************************************************)
\* the words of more than two characters of a normalized text, by position
LongWords(s) ==
    { w \in (DOMAIN s) \X (DOMAIN s) :
        /\ w[2] - w[1] + 1 > 2
        /\ \A k \in w[1]..w[2] : s[k] # " "
        /\ w[1] = 1 \/ s[w[1] - 1] = " "
        /\ w[2] = Len(s) \/ s[w[2] + 1] = " " }

WordAt(s, w) == SubSeq(s, w[1], w[2])

PartOf(x, y) ==
    \E o \in 0..(Len(y) - Len(x)) : SubSeq(y, o + 1, o + Len(x)) = x

Hits(a, b) ==
    { w \in LongWords(a) :
        \E v \in LongWords(b) :
            PartOf(WordAt(a, w), WordAt(b, v)) \/ PartOf(WordAt(b, v), WordAt(a, w)) }

Larger(x, y) == IF x >= y THEN x ELSE y

NoSharedWord ==
    /\ Hits(NormalizeText(matchTemplate), NormalizeText(matchMapping)) = {}
    /\ Hits(NormalizeText(matchMapping), NormalizeText(matchTemplate)) = {}

C11_NoSharedWordNeverMatches ==
    (pc = "matched" /\ NoSharedWord) => matched = Some(FALSE)

(***************************************************************************)
(* C11, amended: two texts that differ once normalized and share no        *)
(* significant word never match, also when one or both have no significant *)
(* word; texts that are equal once normalized match even without one.      *)
(***************************************************************************)
C11_DistinctNoSharedWord ==
    (pc = "matched" /\ NoSharedWord) =>
        matched = Some(NormalizeText(matchTemplate) = NormalizeText(matchMapping))

\* "xyz1" against "abc": both have a significant word, none shared, no match
C11_Witness ==
    /\ pc = "matched"
    /\ matchTemplate = <<"x", "y", "z", "1">>
    /\ matchMapping = <<"a", "b", "c">>
    /\ NoSharedWord
    /\ matched = Some(FALSE)


(***************************************************************************)
(* C12: classifyRow gives a row one kind, by the first rule that applies   *)
(* to its trimmed first cell: 'header' if it is 'questions' in any case,   *)
(* 'subtotal' if it contains 'category subtotal' in any case, 'section' if *)
(* it starts with digits, a dot, digits and a colon, 'empty' if every cell *)
(* is blank, otherwise 'question'; a row is 'empty' only when all of its   *)
(* cells are blank.                                                        *)
(***************************************************************************)
Blank(text) == \A k \in DOMAIN text : text[k] \in {" ", "\t", "\n"}

FirstCellOf(cells) == IF cells = <<>> THEN <<>> ELSE Trim(cells[1])

LooksLikeSection(text) ==
    \E i \in 1..Len(text), j \in 1..Len(text) :
        /\ i + 2 <= j /\ j < Len(text)
        /\ \A k \in 1..i : text[k] \in Digits
        /\ text[i + 1] = "."
        /\ \A k \in (i + 2)..j : text[k] \in Digits
        /\ text[j + 1] = ":"

KindByRules(cells) ==
    LET first == FirstCellOf(cells)
    IN  IF ToLower(first) = <<"q", "u", "e", "s", "t", "i", "o", "n", "s">>
        THEN "header"
        ELSE IF PartOf(<<"c", "a", "t", "e", "g", "o", "r", "y", " ",
                         "s", "u", "b", "t", "o", "t", "a", "l">>, ToLower(first))
        THEN "subtotal"
        ELSE IF LooksLikeSection(first) THEN "section"
        ELSE IF \A k \in DOMAIN cells : Blank(cells[k]) THEN "empty"
        ELSE "question"

C12_ClassifyRules ==
    pc = "classified" =>
        /\ rowType = Some(KindByRules(rowCells))
        /\ rowType = Some("empty") => \A k \in DOMAIN rowCells : Blank(rowCells[k])

\* a blank first cell next to a cell holding "3": classified 'empty'
C12_Divergence ==
    /\ pc = "classified"
    /\ rowCells = << <<>>, <<"3">> >>
    /\ rowType = Some("empty")


(***************************************************************************)
(* C16: after setCellText(cell, text) the cell holds exactly one run and   *)
(* getCellText(cell) is exactly text: the further runs of the first        *)
(* paragraph and the further paragraphs are gone, and a cell without a run *)
(* has got one that carries the text.                                      *)
(***************************************************************************)
RECURSIVE RunCount(_)
RECURSIVE RunCountOfAll(_)
RunCount(node) ==
    (IF node.tag = "w:r" THEN 1 ELSE 0) + RunCountOfAll(node.kids)

RunCountOfAll(nodes) ==
    IF nodes = <<>> THEN 0 ELSE RunCount(Head(nodes)) + RunCountOfAll(Tail(nodes))

ParagraphCount(cell) == Cardinality({ k \in DOMAIN cell.kids : cell.kids[k].tag = "w:p" })

C16_OneRunHoldsText ==
    pc = "cellSet" =>
        /\ RunCount(cellNode) = 1
        /\ GetCellText(cellNode) = cellText
        /\ ParagraphCount(cellNode) = 1

\* a second paragraph holding "d" stays: the cell reads "xd" and has two runs
C16_Divergence ==
    /\ pc = "cellSet"
    /\ cellText = <<"x">>
    /\ ParagraphCount(cellOriginal) = 2
    /\ ParagraphCount(cellNode) = 2
    /\ RunCount(cellNode) = 2
    /\ GetCellText(cellNode) = <<"x", "d">>


(***************************************************************************)
(* C13: for a body with n tables parseTemplate yields floor(n/5) products; *)
(* product p has standardsTableIndex 5p and exactly four category tables,  *)
(* with tableIndex 5p+1..5p+4, labelled perceivable, operable,             *)
(* understandable, robust in that order, each read from the table that     *)
(* stands at that index in the body; no table index is in two products and *)
(* the n mod 5 last tables are in no product.                              *)
(***************************************************************************)
\* the positions in the body that hold a table, in document order
TablePositions(body) == { k \in DOMAIN body : body[k].tag = "w:tbl" }

\* the body position of table i (0-based): i tables stand before it
PositionOfTable(body, i) ==
    CHOOSE k \in TablePositions(body) :
        Cardinality({ j \in TablePositions(body) : j < k }) = i

TableIndicesOf(prod) ==
    {prod.standardsTableIndex} \cup { prod.tables[c].tableIndex : c \in DOMAIN prod.tables }

FixedCategories == <<"perceivable", "operable", "understandable", "robust">>

C13_ProductBoundaries ==
    (pc = "parsed" /\ template.hasBody) =>
        LET n == Cardinality(TablePositions(template.body))
        IN  /\ Len(products) = n \div 5
            /\ \A p \in DOMAIN products :
                  LET prod == products[p]
                  IN  /\ prod.productIndex = p - 1
                      /\ prod.standardsTableIndex = 5 * (p - 1)
                      /\ Len(prod.tables) = 4
                      /\ \A c \in 1..4 :
                            /\ prod.tables[c].tableIndex = 5 * (p - 1) + c
                            /\ prod.tables[c].category = FixedCategories[c]
                            /\ [r \in DOMAIN prod.tables[c].rows |->
                                   prod.tables[c].rows[r].cells]
                                 = TableTexts(template.body[
                                       PositionOfTable(template.body,
                                                       prod.tables[c].tableIndex)])
            /\ \A p, q \in DOMAIN products :
                  p # q => TableIndicesOf(products[p]) \cap TableIndicesOf(products[q]) = {}
            /\ \A p \in DOMAIN products :
                  \A i \in TableIndicesOf(products[p]) : i < 5 * (n \div 5)

\* eleven tables between headings: two products, the last table in neither
C13_Witness ==
    /\ pc = "parsed"
    /\ template.hasBody
    /\ Cardinality(TablePositions(template.body)) = 11
    /\ template.body[1].tag = "w:p"
    /\ Len(products) = 2
    /\ products[2].tables[4].tableIndex = 9
    /\ products[2].tables[4].rows[2].questionText = Some(<<"q", "9">>)


(***************************************************************************)
(* C14: a run that meets a structural error (no template body, fewer than  *)
(* 5 tables in the body, or a product index beyond the products found)     *)
(* ends as failed, and at that point the run has written no file.          *)
(***************************************************************************)
TableCount(doc) == Cardinality(TablePositions(doc.body))

\* the run has read the template and the template or the index is unusable
MeetsStructuralError ==
    /\ pc = "ended"
    /\ ~runConfig.scanOnly
    /\ \/ ~template.hasBody
       \/ TableCount(template) < 5
       \/ runConfig.productSectionIndex >= TableCount(template) \div 5

AbortedAsFailed == runResult # None /\ ~runResult[1].success

C14_NoFileOnStructuralError ==
    MeetsStructuralError => (AbortedAsFailed /\ files = {})

\* C14 as the run behaves: the run ends as failed and has not written the
\* output document; the remediation report of the scan, written before the
\* template is read, is the one file it leaves
C14_NoDocumentOnStructuralError ==
    MeetsStructuralError =>
        (AbortedAsFailed /\ OutputFile \notin files /\ files = {RemediationFile})

\* a template of eleven tables and the third product asked for
C14_Witness ==
    /\ MeetsStructuralError
    /\ TableCount(template) = 11
    /\ runConfig.productSectionIndex = 2
    /\ runResult = Failed(ProductNotFoundError)
    /\ files = {RemediationFile}


(***************************************************************************)
(* C15: for every question row that has a score, updateTable leaves cell 2 *)
(* reading '*' for a null score and the score 0 or 1 otherwise, cell 3     *)
(* reading the weighted score or nothing when it is null, cell 4 reading   *)
(* the score's comment, and every cell after cell 4 reading nothing,       *)
(* whatever the comment is and however many cells follow cell 4.           *)
(***************************************************************************)
\* the cells of row rowIdx of table tableIndex of a body (both 0-based)
CellsAt(body, tableIndex, rowIdx) ==
    LET tableNode == body[PositionOfTable(body, tableIndex)]
    IN  KidsTagged(KidsTagged(tableNode, "w:tr")[rowIdx + 1], "w:tc")

ExpectedScoreText(s) ==
    IF s.score = None THEN <<"*">>
    ELSE IF s.score[1] = 0 THEN <<"0">> ELSE <<"1">>

ExpectedWeightedText(s) ==
    IF s.weightedScore = None THEN <<>> ELSE NumStr(s.weightedScore[1])

C15_ScoredRowCells ==
    pc = "written" =>
        \A i \in DOMAIN scores :
            LET s     == scores[i]
                cells == CellsAt(parsedDoc, s.tableIndex, s.rowIndex)
            IN  /\ GetCellText(cells[3]) = ExpectedScoreText(s)
                /\ GetCellText(cells[4]) = ExpectedWeightedText(s)
                /\ Len(cells) >= 5 => GetCellText(cells[5]) = s.comment
                /\ \A k \in 6..Len(cells) : GetCellText(cells[k]) = <<>>

\* a carried score with an empty comment on a row that carried a comment and
\* two further cells: the old comment and the further cells are still there
C15_Divergence ==
    /\ pc = "written"
    /\ \E i \in DOMAIN scores :
          LET s      == scores[i]
              before == CellsAt(template.body, s.tableIndex, s.rowIndex)
              cells  == CellsAt(parsedDoc, s.tableIndex, s.rowIndex)
          IN  /\ s.score = Some(1)
              /\ s.comment = <<>>
              /\ Len(cells) = 7
              /\ GetCellText(cells[3]) = <<"1">>
              /\ GetCellText(cells[5]) = <<"o", "k">>
              /\ GetCellText(cells[6]) = <<"t">>
              /\ cells[5] = before[5]


(***************************************************************************)
(* C17: after updateTable on a table whose last row is the subtotal row,   *)
(* that row holds the weighted-score total (the sum of weightedScore over  *)
(* the rows with a non-null score) and the max-possible total (the sum of  *)
(* weight over those rows, so that a question scored 0 with weight w adds  *)
(* w) in two fixed cells, cell 6 and cell 5 wherever the row has them,     *)
(* whatever the number of cells of the row.                                *)
(***************************************************************************)
RowsOfTable(body, tableIndex) ==
    KidsTagged(body[PositionOfTable(body, tableIndex)], "w:tr")

\* the scores with a non-null score among those of one table
CountedScores(tableIndex) ==
    { i \in DOMAIN scores : scores[i].tableIndex = tableIndex /\ scores[i].score # None }

WeightedTotal(tableIndex) ==
    SumOver([i \in DOMAIN scores |->
                IF scores[i].score = None THEN 0
                ELSE scores[i].weight * scores[i].score[1]],
            CountedScores(tableIndex))

MaxPossibleTotal(tableIndex) ==
    SumOver([i \in DOMAIN scores |-> scores[i].weight], CountedScores(tableIndex))

EndsWithSubtotal(rows) ==
    /\ rows # <<>>
    /\ ClassifyRow(RowTexts(rows[Len(rows)])) = "subtotal"

HoldsTotals(cells, weighted, maxPossible) ==
    \E a, b \in DOMAIN cells :
        /\ a # b
        /\ GetCellText(cells[a]) = NumStr(weighted)
        /\ GetCellText(cells[b]) = NumStr(maxPossible)
        /\ Len(cells) >= 7 => (a = 7 /\ b = 6)

C17_SubtotalTotals ==
    pc = "written" =>
        \A c \in DOMAIN product.tables :
            LET t    == product.tables[c].tableIndex
                rows == RowsOfTable(parsedDoc, t)
            IN  EndsWithSubtotal(rows) =>
                    HoldsTotals(KidsTagged(rows[Len(rows)], "w:tc"),
                                WeightedTotal(t), MaxPossibleTotal(t))

\* a subtotal row of five cells under a question scored 0 with weight 3:
\* the row is as it was, every cell but the first reading nothing
C17_Divergence ==
    /\ pc = "written"
    /\ LET rows  == RowsOfTable(parsedDoc, 1)
           cells == KidsTagged(rows[Len(rows)], "w:tc")
       IN  /\ EndsWithSubtotal(rows)
           /\ Len(cells) = 5
           /\ rows[Len(rows)] = RowsOfTable(template.body, 1)[Len(rows)]
           /\ \A k \in 2..5 : GetCellText(cells[k]) = <<>>
    /\ \E i \in DOMAIN scores :
          /\ scores[i].tableIndex = 1
          /\ scores[i].score = Some(0)
          /\ scores[i].weight = 3
    /\ MaxPossibleTotal(1) = 3


(***************************************************************************)
(* C18: updateTable with the scores scoreQuestions produced changes        *)
(* neither the number of tables, nor the number of rows of any table, nor  *)
(* the kind of any row: classifyRow gives every row after the update the   *)
(* kind it gave it before.                                                 *)
(***************************************************************************)
KindsOfRows(tableNode) ==
    LET texts == TableTexts(tableNode)
    IN  [r \in DOMAIN texts |-> ClassifyRow(texts[r])]

C18_ShapeKept ==
    pc = "written" =>
        LET before == TableNodes(template.body)
            after  == TableNodes(parsedDoc)
        IN  /\ Len(after) = Len(before)
            /\ \A t \in DOMAIN before :
                  /\ Len(KidsTagged(after[t], "w:tr")) = Len(KidsTagged(before[t], "w:tr"))
                  /\ KindsOfRows(after[t]) = KindsOfRows(before[t])

\* a question row scored 0 by the scan above a subtotal row of eleven cells:
\* both rows were rewritten
C18_Witness ==
    /\ pc = "written"
    /\ \E i \in DOMAIN scores :
          /\ scores[i].tableIndex = 1
          /\ scores[i].score = Some(0)
          /\ GetCellText(CellsAt(parsedDoc, 1, scores[i].rowIndex)[3]) = <<"0">>
          /\ GetCellText(CellsAt(template.body, 1, scores[i].rowIndex)[3]) = <<>>
    /\ LET rows == RowsOfTable(parsedDoc, 1)
       IN  /\ Len(KidsTagged(rows[Len(rows)], "w:tc")) = 11
           /\ rows[Len(rows)] # RowsOfTable(template.body, 1)[Len(rows)]
    /\ KindsOfRows(TableNodes(parsedDoc)[2])
         = <<"header", "section", "question", "subtotal">>

(***************************************************************************)
(* C19: generateDocx changes only the tables of the selected product,      *)
(* found at the body-order table indices parseTemplate gave them: every    *)
(* other table (the standards tables, the tables of the other product, the *)
(* trailing table) is as it was, and inside an updated table only cells 2, *)
(* 3 and 4 onward of rows that have a score and cells 5 and 6 of the       *)
(* subtotal row differ from what they were.                                *)
(***************************************************************************)
Generated == pc = "ended" /\ OutputFile \in files

\* the body-order indices of the category tables of the product asked for
SelectedIndices ==
    { 5 * runConfig.productSectionIndex + c : c \in 1..4 }

HasScore(t, r) ==
    \E i \in DOMAIN scores : scores[i].tableIndex = t /\ scores[i].rowIndex = r

\* row r (0-based) of table t differs only in cells it may differ in
RowChangeAllowed(t, r, rowBefore, rowAfter, isLast) ==
    /\ Len(rowAfter.kids) = Len(rowBefore.kids)
    /\ rowAfter.attrs = rowBefore.attrs
    /\ \A k \in DOMAIN rowBefore.kids :
          rowAfter.kids[k] # rowBefore.kids[k] =>
              /\ rowBefore.kids[k].tag = "w:tc"
              /\ LET i == RankAmong(rowBefore, "w:tc", k)
                 IN  \/ HasScore(t, r) /\ i >= 2
                     \/ /\ isLast
                        /\ ClassifyRow(RowTexts(rowBefore)) = "subtotal"
                        /\ i \in {5, 6}

TableChangeAllowed(t, before, after) ==
    /\ Len(after.kids) = Len(before.kids)
    /\ after.attrs = before.attrs
    /\ \A k \in DOMAIN before.kids :
          IF before.kids[k].tag = "w:tr"
          THEN /\ after.kids[k].tag = "w:tr"
               /\ RowChangeAllowed(t, RankAmong(before, "w:tr", k),
                                   before.kids[k], after.kids[k],
                                   \A j \in ChildrenTagged(before, "w:tr") : j <= k)
          ELSE after.kids[k] = before.kids[k]

C19_OnlySelectedTables ==
    Generated =>
        LET before == TableNodes(template.body)
            after  == TableNodes(parsedDoc)
        IN  /\ Len(after) = Len(before)
            /\ TablePositions(parsedDoc) = TablePositions(template.body)
            /\ \A t \in DOMAIN before :
                  IF t - 1 \in SelectedIndices
                  THEN TableChangeAllowed(t - 1, before[t], after[t])
                  ELSE after[t] = before[t]

\* the second product of a template of eleven tables between paragraphs:
\* its first category table was rewritten, the first product's was not
C19_Witness ==
    /\ Generated
    /\ runConfig.productSectionIndex = 1
    /\ Len(TableNodes(template.body)) = 11
    /\ template.body[1].tag = "w:p"
    /\ TableNodes(parsedDoc)[7] # TableNodes(template.body)[7]
    /\ TableNodes(parsedDoc)[2] = TableNodes(template.body)[2]
    /\ TableNodes(parsedDoc)[11] = TableNodes(template.body)[11]
    /\ \E i \in DOMAIN scores : scores[i].tableIndex = 6 /\ scores[i].score # None


(***************************************************************************)
(* C21: every question row is scoped by the nearest section row above it   *)
(* in its table and a question row with no section row above it has the    *)
(* empty prefix; scoreQuestions and extractQuestions give a question row   *)
(* the same prefix, also at the top of the second table of a product.      *)
(***************************************************************************)
\* the table of the product with a given tableIndex
ProductTable(tableIndex) ==
    product.tables[CHOOSE t \in DOMAIN product.tables :
                       product.tables[t].tableIndex = tableIndex]

\* the prefix of the nearest section row above row rowIdx (0-based) of a
\* table, read from the cell text: what stands before the first colon of a
\* text that starts as <digits>.<digits>:
NearestSectionPrefix(table, rowIdx) ==
    LET secs == { j \in 1..rowIdx : ClassifyRow(table.rows[j].cells) = "section" }
    IN  IF secs = {} THEN <<>>
        ELSE BeforeColon(Trim(table.rows[CHOOSE j \in secs : \A k \in secs : k <= j]
                                  .cells[1]))

C21_SamePrefix ==
    pc \in {"extracted", "scored"} =>
        \A n \in DOMAIN questions :
            LET q     == questions[n]
                table == ProductTable(q.tableIndex)
            IN  /\ q.wcagSc = NearestSectionPrefix(table, q.rowIndex)
                /\ q.wcagSc = CurrentScPrefix(table, q.rowIndex + 1)

\* a question at the top of the second table, below a first table that ends
\* in section 1.1: extractQuestions files it under 1.1, scoreQuestions under
\* no section, so that it is not scored from the verdicts of 1.1.1
C21_Divergence ==
    /\ pc = "scored"
    /\ wcagResults # <<>>
    /\ \E n \in DOMAIN questions :
          LET q == questions[n]
          IN  /\ q.tableIndex = 2
              /\ q.rowIndex = 1
              /\ q.questionText = RowAutoText
              /\ q.wcagSc = Prefix11
              /\ CurrentScPrefix(ProductTable(2), 2) = <<>>
              /\ NearestSectionPrefix(ProductTable(2), 1) = <<>>
              /\ \E m \in DOMAIN scores :
                    /\ scores[m].tableIndex = 2
                    /\ scores[m].rowIndex = 1
                    /\ ~scores[m].automatable
                    /\ scores[m].score = None


(***************************************************************************)
(* C22: scoringSummary returns the number of scores (total), of scores of  *)
(* automatable questions (automated), of the others (manual), of scores    *)
(* equal to 1 (passing), to 0 (failing) and to null (na), and leaves the   *)
(* scores as they were; for the scores scoreQuestions returns,             *)
(* automated + manual = total and passing + failing + na = total.          *)
(***************************************************************************)
ScoresWhere(Keep(_)) == Cardinality({i \in DOMAIN scores : Keep(scores[i])})

SummaryCounts ==
    LET IsAuto(s) == s.automatable
        IsManual(s) == ~s.automatable
        IsPass(s) == s.score = Some(1)
        IsFail(s) == s.score = Some(0)
        IsNa(s) == s.score = None
    IN  summary # None =>
            /\ summary[1].total = Len(scores)
            /\ summary[1].automated = ScoresWhere(IsAuto)
            /\ summary[1].manual = ScoresWhere(IsManual)
            /\ summary[1].passing = ScoresWhere(IsPass)
            /\ summary[1].failing = ScoresWhere(IsFail)
            /\ summary[1].na = ScoresWhere(IsNa)
            /\ summary[1].automated + summary[1].manual = summary[1].total
            /\ summary[1].passing + summary[1].failing + summary[1].na
                  = summary[1].total

C22_SummaryCounts ==
    /\ []SummaryCounts
    /\ [][pc = "scored" => scores' = scores]_vars

C22_Witness ==
    /\ pc = "summarized"
    /\ summary # None
    /\ summary[1].automated > 0
    /\ summary[1].manual > 0
    /\ summary[1].passing > 0
    /\ summary[1].failing > 0
    /\ summary[1].na > 0


(***************************************************************************)
(* C24: scoreQuestions returns exactly one score for every question row of *)
(* every table and none for a row of another kind, in table order then row *)
(* order, so that no two scores have the same (tableIndex, rowIndex); a    *)
(* mapping gap (no entry for the section, no fuzzy match, no verdict       *)
(* coverage) drops no question and gives a null score with a comment.      *)
(* As the scorer is written, a question with no entry or no fuzzy match    *)
(* takes the manual path, which keeps a recorded "1" or "0" and otherwise  *)
(* a carry-forward score that is not null.                                 *)
(***************************************************************************)
\* <<tableIndex, rowIndex>> of the question rows of a table, in row order,
\* read from the cells
QuestionKeysOfTable(table) ==
    LET IsQ(r) == ClassifyRow(r.cells) = "question"
        qs     == SelectSeq(table.rows, IsQ)
    IN  [i \in DOMAIN qs |-> <<table.tableIndex, qs[i].rowIndex>>]

RECURSIVE QuestionKeysOf(_)
QuestionKeysOf(tables) ==
    IF tables = <<>> THEN <<>>
    ELSE QuestionKeysOfTable(Head(tables)) \o QuestionKeysOf(Tail(tables))

ScoreKeys == [i \in DOMAIN scores |-> <<scores[i].tableIndex, scores[i].rowIndex>>]

ScoredAll == pc \in {"scored", "summarized"}

OneScorePerQuestion ==
    /\ ScoreKeys = QuestionKeysOf(product.tables)
    /\ \A i, j \in DOMAIN scores : ScoreKeys[i] = ScoreKeys[j] => i = j

\* the row a score belongs to, and the definition found for it under the
\* nearest section above it
RowOfScore(s) == ProductTable(s.tableIndex).rows[s.rowIndex + 1]
DefOfScore(s) ==
    FindQuestionDef(QuestionMapping,
                    NearestSectionPrefix(ProductTable(s.tableIndex), s.rowIndex),
                    s.questionText)

\* no entry for the section, or no definition that matches the text
Unmapped(s) == DefOfScore(s) = None

\* an automatable definition with no verdict under the section
Uncovered(s) ==
    /\ DefOfScore(s) # None
    /\ DefOfScore(s)[1].automatable
    /\ \A i \in DOMAIN wcagResults :
          ~IsRelevant(wcagResults[i].sc,
                      NearestSectionPrefix(ProductTable(s.tableIndex), s.rowIndex))

NullWithComment(s) == s.score = None /\ s.comment # <<>>

HasRecordedScore(s) == Trim(RowOfScore(s).cells[3]) \in {<<"1">>, <<"0">>}

HasCarriedScore(s) ==
    /\ carryForwardScores # None
    /\ <<s.tableIndex, s.rowIndex>> \in DOMAIN carryForwardScores[1]
    /\ carryForwardScores[1][<<s.tableIndex, s.rowIndex>>].score # None

C24_GapIsNull ==
    ScoredAll =>
        /\ OneScorePerQuestion
        /\ \A i \in DOMAIN scores :
              Unmapped(scores[i]) \/ Uncovered(scores[i])
                  => NullWithComment(scores[i])

C24_GapIsNullUnlessKept ==
    ScoredAll =>
        /\ OneScorePerQuestion
        /\ \A i \in DOMAIN scores :
              LET s == scores[i]
              IN  /\ Uncovered(s) => NullWithComment(s)
                  /\ Unmapped(s) =>
                        IF HasRecordedScore(s)
                        THEN s.score = ParseInt(Trim(RowOfScore(s).cells[3]))
                        ELSE IF HasCarriedScore(s)
                        THEN s.score
                               = carryForwardScores[1][<<s.tableIndex, s.rowIndex>>].score
                        ELSE NullWithComment(s)

\* a pass with a question without verdict coverage, an unmapped question
\* scored null and an unmapped question that keeps its recorded score
C24_Witness ==
    /\ ScoredAll
    /\ Len(scores) = 3
    /\ Uncovered(scores[1])
    /\ Unmapped(scores[2]) /\ HasRecordedScore(scores[2])
                           /\ scores[2].score = Some(1)
    /\ Unmapped(scores[3]) /\ scores[3].questionText = RowUnknownText
                           /\ NullWithComment(scores[3])


(***************************************************************************)
(* C29: textsMatch is symmetric: textsMatch(a, b) = textsMatch(b, a) for   *)
(* every pair of texts, texts with repeated words included.                *)
(* As textsMatch is written it counts the significant words of its first   *)
(* text that match a word of the second, so the two directions agree when  *)
(* no significant word of one text matches more than one significant word  *)
(* of the other.                                                           *)
(***************************************************************************)
TemplateWords == SignificantWords(NormalizeText(matchTemplate))
MappingWords == SignificantWords(NormalizeText(matchMapping))

\* the words of ws that contain w or are contained in it
Neighbours(w, ws) ==
    { k \in DOMAIN ws : Includes(ws[k], w) \/ Includes(w, ws[k]) }

OneToOne ==
    /\ \A i \in DOMAIN TemplateWords :
          Cardinality(Neighbours(TemplateWords[i], MappingWords)) <= 1
    /\ \A k \in DOMAIN MappingWords :
          Cardinality(Neighbours(MappingWords[k], TemplateWords)) <= 1

C29_Symmetric ==
    pc = "matched" => matched = Some(TextsMatch(matchMapping, matchTemplate))

C29_SymmetricOneToOne ==
    (pc = "matched" /\ OneToOne)
        => matched = Some(TextsMatch(matchMapping, matchTemplate))

\* two texts of two words each that differ after normalization and match
\* word for word, in both directions
C29_Witness ==
    /\ pc = "matched"
    /\ OneToOne
    /\ NormalizeText(matchTemplate) # NormalizeText(matchMapping)
    /\ Len(TemplateWords) = 2
    /\ Len(MappingWords) = 2
    /\ matched = Some(TRUE)
    /\ TextsMatch(matchMapping, matchTemplate)


(***************************************************************************)
(* C28: setCellText changes only the text of the cell: the children of the *)
(* first run that are not text elements, the children of the first         *)
(* paragraph that are not runs, the cell's own properties and the further  *)
(* children of the cell are after the call what they were before, and the  *)
(* nodes that are kept stand in the order they stood in.                   *)
(***************************************************************************)
FirstKid(node, tagName) == node.kids[FirstOf(ChildrenTagged(node, tagName))]

\* the children of a node in order, with the first child of a tag reduced
\* to a mark of its place and the further children of that tag left out
KeptOrder(node, tagName) ==
    LET first == FirstOf(ChildrenTagged(node, tagName))
        keep  == { k \in DOMAIN node.kids : node.kids[k].tag # tagName \/ k = first }
        Nth(n) == CHOOSE k \in keep : Cardinality({ j \in keep : j < k }) = n - 1
    IN  [n \in 1..Cardinality(keep) |->
            IF Nth(n) = first THEN Element(tagName, {}, <<>>) ELSE node.kids[Nth(n)]]

CellHasParagraph == ChildrenTagged(cellOriginal, "w:p") # {}
CellHasRun == CellHasParagraph /\ ChildrenTagged(FirstKid(cellOriginal, "w:p"), "w:r") # {}
CellHasTextEl ==
    CellHasRun /\ ChildrenTagged(FirstKid(FirstKid(cellOriginal, "w:p"), "w:r"), "w:t") # {}

\* everything but the order of the kept nodes
C28_PartsKept ==
    pc = "cellSet" =>
        /\ cellNode.tag = cellOriginal.tag
        /\ cellNode.attrs = cellOriginal.attrs
        /\ Len(cellNode.kids) = Len(cellOriginal.kids)
        /\ \A k \in DOMAIN cellOriginal.kids :
              k # FirstOf(ChildrenTagged(cellOriginal, "w:p") \cup {Len(cellOriginal.kids) + 1})
                  => cellNode.kids[k] = cellOriginal.kids[k]
        /\ CellHasParagraph =>
              LET before == FirstKid(cellOriginal, "w:p")
                  after  == FirstKid(cellNode, "w:p")
              IN  /\ after.attrs = before.attrs
                  /\ KidsNotTagged(after, "w:r") = KidsNotTagged(before, "w:r")
                  /\ CellHasRun =>
                        /\ FirstKid(after, "w:r").attrs = FirstKid(before, "w:r").attrs
                        /\ KidsNotTagged(FirstKid(after, "w:r"), "w:t")
                             = KidsNotTagged(FirstKid(before, "w:r"), "w:t")

C28_OnlyTextChanges ==
    /\ C28_PartsKept
    /\ (pc = "cellSet" /\ CellHasRun) =>
          LET before == FirstKid(cellOriginal, "w:p")
              after  == FirstKid(cellNode, "w:p")
          IN  /\ KeptOrder(after, "w:r") = KeptOrder(before, "w:r")
              /\ CellHasTextEl =>
                    KeptOrder(FirstKid(after, "w:r"), "w:t")
                        = KeptOrder(FirstKid(before, "w:r"), "w:t")

\* a first run "a", tab, "b" followed by a bookmark end: afterwards the text
\* element stands behind the tab and the run behind the bookmark end
C28_Divergence ==
    /\ pc = "cellSet"
    /\ cellText = <<"x">>
    /\ CellHasTextEl
    /\ LET before == FirstKid(cellOriginal, "w:p")
           after  == FirstKid(cellNode, "w:p")
       IN  /\ before.kids[Len(before.kids)] = BookmarkEnd
           /\ before.kids[Len(before.kids) - 1].tag = "w:r"
           /\ Len(before.kids[Len(before.kids) - 1].kids) = 3
           /\ before.kids[Len(before.kids) - 1].kids[1].tag = "w:t"
           /\ before.kids[Len(before.kids) - 1].kids[2].tag = "w:tab"
           /\ after.kids[Len(after.kids) - 1] = BookmarkEnd
           /\ after.kids[Len(after.kids)].tag = "w:r"
           /\ after.kids[Len(after.kids)].kids
                = <<Element("w:tab", {}, <<>>), TextElement({PreserveSpace}, <<"x">>)>>


(***************************************************************************)
(* C27: after generateDocx, in every paragraph whose text contains         *)
(* "Report Date:", the first run whose text holds a date (digits/digits/   *)
(* digits) or contains "Q" carries the configured report date as its text, *)
(* and the other runs of the paragraph are as they were.                   *)
(***************************************************************************)
\* the text of the runs of a paragraph contains "Report Date:"
IsDateParagraph(node) ==
    /\ node.tag = "w:p"
    /\ Includes(GetTextOfAll(KidsTagged(node, "w:r")), ReportDateLiteral)

\* the positions of the runs of a paragraph that hold a date or a "Q"
DatedRuns(para) ==
    { k \in ChildrenTagged(para, "w:r") :
        HasDate(RunText(para.kids[k])) \/ Includes(RunText(para.kids[k]), <<"Q">>) }

C27_ReportDateWritten ==
    Generated =>
        \A k \in DOMAIN template.body :
            (IsDateParagraph(template.body[k]) /\ DatedRuns(template.body[k]) # {}) =>
                LET before == template.body[k]
                    after  == parsedDoc[k]
                    dated  == FirstOf(DatedRuns(before))
                IN  /\ Len(after.kids) = Len(before.kids)
                    /\ RunText(after.kids[dated]) = runConfig.reportDate
                    /\ \A j \in DOMAIN before.kids :
                          j # dated => after.kids[j] = before.kids[j]

\* the paragraph "Report Date: " + "1/2/24" of a generated document still
\* reads 1/2/24 although the configured report date is 3/4/26
C27_Divergence ==
    /\ Generated
    /\ runConfig.reportDate = ReportDate
    /\ \E k \in DOMAIN template.body :
          /\ template.body[k] = DateParagraph
          /\ DatedRuns(DateParagraph) = {2}
          /\ parsedDoc[k] = DateParagraph
          /\ RunText(parsedDoc[k].kids[2]) = <<"1", "/", "2", "/", "2", "4">>


(***************************************************************************)
(* C25: in a full run whose configuration names a carry-forward file, a    *)
(* question that is not automatable, has no recorded "1" or "0" and has a  *)
(* carry-forward score that is not null under its (tableIndex, rowIndex)   *)
(* is scored, and written, with that carry-forward score and comment.      *)
(***************************************************************************)
\* the score s is one the carry-forward file of the run has to decide
CarriedOver(s) ==
    /\ runConfig.carryForwardPath # None
    /\ ~s.automatable
    /\ Trim(GetCellText(CellsAt(template.body, s.tableIndex, s.rowIndex)[3]))
          \notin {<<"1">>, <<"0">>}
    /\ <<s.tableIndex, s.rowIndex>> \in DOMAIN CarryForwardFileScores
    /\ CarryForwardFileScores[<<s.tableIndex, s.rowIndex>>].score # None

C25_CarryForwardInRun ==
    pc \in {"scored", "ended"} =>
        \A i \in DOMAIN scores :
            LET s       == scores[i]
                carried == CarryForwardFileScores[<<s.tableIndex, s.rowIndex>>]
            IN  CarriedOver(s) =>
                    /\ s.score = carried.score
                    /\ s.comment = carried.comment
                    /\ Generated =>
                          GetCellText(CellsAt(parsedDoc, s.tableIndex, s.rowIndex)[3])
                              = ExpectedScoreText(carried)

\* a run that names the carry-forward file ends with the manual question
\* scored null and written as "*", though the file holds the score 1 for it
C25_Divergence ==
    /\ Generated
    /\ runConfig.carryForwardPath = Some(CarryForwardFile)
    /\ \E i \in DOMAIN scores :
          /\ CarriedOver(scores[i])
          /\ scores[i].questionText = RowManualText
          /\ scores[i].score = None
          /\ CarryForwardFileScores[<<scores[i].tableIndex, scores[i].rowIndex>>].score
                = Some(1)
          /\ GetCellText(CellsAt(parsedDoc, scores[i].tableIndex, scores[i].rowIndex)[3])
                = <<"*">>


(***************************************************************************)
(* C26: with the mapping file absent and nothing cached, a call of         *)
(* loadQuestionMapping, and so a call of scoreQuestions, fails with an     *)
(* error that names the mapping path and is none of the structural         *)
(* template errors; the failure leaves the cache empty, so that a later    *)
(* call loads the file once it exists; once a mapping is loaded every      *)
(* later call returns that mapping, and no scoring pass changes it.        *)
(***************************************************************************)
StructuralErrors == { <<NoBodyError>>, <<TooFewTablesError>>, <<ProductNotFoundError>> }

NamesMappingPath(error) == \E k \in DOMAIN error : error[k] = MappingPath

\* a step that is a call of loadQuestionMapping or of scoreQuestions
IsCall == calls' = calls + 1

FailsWhenAbsent ==
    (IsCall /\ cachedMapping = None /\ mappingFile = None) =>
        /\ loadResult' # None
        /\ loadResult'[1].error # None
        /\ NamesMappingPath(loadResult'[1].error[1])
        /\ loadResult'[1].error[1] \notin StructuralErrors
        /\ cachedMapping' = None
        /\ failedCalls' = failedCalls + 1
        /\ scores' = scores

LoadsWhenPresent ==
    (IsCall /\ cachedMapping = None /\ mappingFile # None) =>
        /\ loadResult' = Some([value |-> mappingFile, error |-> None])
        /\ cachedMapping' = mappingFile

KeepsWhenLoaded ==
    cachedMapping # None =>
        /\ cachedMapping' = cachedMapping
        /\ IsCall => loadResult' = Some([value |-> cachedMapping, error |-> None])

C26_MappingCache == [][FailsWhenAbsent /\ LoadsWhenPresent /\ KeepsWhenLoaded]_vars

\* a failed call, then a scoring pass that loaded the file, then, with the
\* file removed or rewritten, a call that still returns the loaded mapping
C26_Witness ==
    /\ pc = "mapping"
    /\ calls = 3
    /\ failedCalls = 1
    /\ cachedMapping = Some(QuestionMapping)
    /\ mappingFile # cachedMapping
    /\ loadResult = Some([value |-> cachedMapping, error |-> None])
    /\ \E i \in DOMAIN scores : scores[i].automatable


(***************************************************************************)
(* C23: scanUrls returns exactly one result for every input URL, in the    *)
(* order of the input, in whatever order the scans of a batch complete; a  *)
(* URL whose scan fails has the result with empty violations, passes and   *)
(* incomplete lists, and its failure neither stops the scans of the other  *)
(* URLs nor takes away their results.                                      *)
(***************************************************************************)
ReturnsOnePerUrl ==
    pc = "returned" =>
        /\ Len(resultList) = Len(urls)
        /\ \A k \in DOMAIN urls :
              /\ resultList[k].url = urls[k]
              /\ resultList[k] = taskResult[k][1]

\* a failed scan gives the empty result, a scan that went through its own
FailedOrScanned ==
    \A k \in DOMAIN taskResult :
        taskResult[k] # None =>
            \/ /\ taskResult[k][1].violations = <<>>
               /\ taskResult[k][1].passes = <<>>
               /\ taskResult[k][1].incomplete = <<>>
               /\ taskResult[k][1].url = urls[k]
            \/ taskResult[k][1] = PageResult(urls[k])

\* the step in which the scan of URL k fails
ScanFailure(k) ==
    /\ taskResult[k] = None
    /\ taskResult'[k] = Some(FailedResult(urls[k]))

\* it leaves scanUrls waiting, the other callbacks where they are and the
\* results collected so far in place
FailureIsLocal ==
    \A k \in DOMAIN urls :
        ScanFailure(k) =>
            /\ pc' = pc
            /\ stage'[k] = "close"
            /\ \A j \in DOMAIN urls \ {k} :
                  stage'[j] = stage[j] /\ taskResult'[j] = taskResult[j]
            /\ resultList' = resultList

C23_OneResultPerUrl ==
    /\ [](ReturnsOnePerUrl /\ FailedOrScanned)
    /\ [][FailureIsLocal]_vars

\* a run over three URLs, two at a time, in which the second URL finished
\* before the first and the scan of the second failed
C23_Witness ==
    /\ pc = "returned"
    /\ Len(urls) = 3
    /\ concurrency = 2
    /\ finished = <<2, 1, 3>>
    /\ resultList = <<PageResult(urls[1]), FailedResult(urls[2]), PageResult(urls[3])>>


(***************************************************************************)
(* C30: during scanUrls at most `concurrency` scans are in flight, and no  *)
(* scan of a batch starts before every scan of the batch before it has     *)
(* finished; every browser context that was opened is closed, whether its  *)
(* scan succeeded or failed; and when scanUrls ends, by returning or by    *)
(* throwing, the browser has been closed.                                  *)
(***************************************************************************)
InFlight == { k \in DOMAIN stage : stage[k] \in {"newContext", "newPage", "scan", "close"} }

Settled(k) == stage[k] \in {"fulfilled", "rejected"}

\* the number of the batch URL k (1-based) is in
BatchOf(k) == (k - 1) \div concurrency

AtMostConcurrency == Cardinality(InFlight) <= concurrency

BatchesInTurn ==
    \A j, k \in DOMAIN stage :
        (BatchOf(j) < BatchOf(k) /\ stage[k] # "pending") => Settled(j)

ContextsClosed ==
    \A k \in DOMAIN stage :
        (Settled(k) /\ contexts[k] # "none") => contexts[k] = "closed"

BrowserClosedAtEnd ==
    (pc \in {"returned", "threw"} /\ browser # "none") => browser = "closed"

C30_BoundedAndReleased ==
    /\ AtMostConcurrency
    /\ BatchesInTurn
    /\ ContextsClosed
    /\ BrowserClosedAtEnd

\* newPage rejects for the second URL of a batch of two: scanUrls has thrown
\* with the browser open, the context of that URL open and the scan of the
\* first URL still going on
C30_Divergence ==
    /\ pc = "threw"
    /\ browser = "open"
    /\ concurrency = 2
    /\ stage[1] = "scan"
    /\ stage[2] = "rejected"
    /\ contexts[2] = "open"

============================================================================
